---- MODULE Spec2Model ----
(***************************************************************************)
(* Model of the peer-to-peer content-sharing network of src/peer:          *)
(* the consistent-hash ring (hashing.py), the membership layer and the     *)
(* download path (base.py), the Naive and Semantic strategies with         *)
(* read-repair and anti-entropy (naive.py, semantic.py), the object store  *)
(* (storage.py) and the request handlers (api.py).                         *)
(***************************************************************************)
EXTENDS Integers, Sequences, FiniteSets, TLC

VARIABLES
    alive,        \* alive[p]: the process of peer p is running and answers requests
    left,         \* peers whose /leave handler has completed since their last start
    known_peers,  \* known_peers[p]: BasePeer.known_peers, a list of peer ids
    ring,         \* ring[p]: the ConsistentHashRing of p: [ring, sorted_keys]
    last_seen,    \* last_seen[p]: peers whose last_seen entry is younger than failure_timeout
    rejoin,       \* rejoin[p]: position of the attempt_rejoin thread of p
    fd,           \* fd[p]: failure_detector thread: the peer whose ping just failed, or None
    kills,        \* number of processes killed so far
    restarts,     \* number of processes restarted so far
    mode,         \* PEER_MODE of the cluster: "NAIVE", "SEMANTIC" or "METADATA"
    manifests,    \* manifests[p][h]: the manifest file <h>.manifest.json of p, or NoManifest
    chunks,       \* chunks[p][h]: the content of chunk file h of p, or NoData
    uploads,      \* uploads[p]: the upload_file call running on p, or NoUpload
    repairs,      \* read-repair threads started and not yet finished: [target, manifest]
    clock,        \* wall clock (time.time()), in upload ticks
    stored,       \* filenames for which an upload_file call returned status "stored"
    victim,       \* the last process killed and who held which manifest at that moment
    last,         \* the most recent operation and what it returned
    index,        \* index[p][k]: the entries of the index file idx_<md5(k)>.json of p
    lock,         \* lock[p]: the thread of p that holds BasePeer.lock, or None
    pc,           \* pc[p][t]: where thread t of p stands, for the peers followed step by step
    mfile,        \* mfile[p][h]: the manifest file of hash h on p as the file system holds it
    handles,      \* handles[w]: the manifest file that save_manifest call w has open
    index_adds,   \* save_index_entry calls that have loaded their file and not yet written it
    indexed       \* <<filename, base key>> of the index writes that _gsi_write has delivered

vars == <<alive, left, known_peers, ring, last_seen, rejoin, fd, kills, restarts,
          mode, manifests, chunks, uploads, repairs, clock, stored, victim, last,
          index, index_adds, indexed, lock, pc, mfile, handles>>

memberVars == <<alive, left, known_peers, ring, last_seen, rejoin, fd, kills, restarts,
               victim>>
dataVars == <<mode, manifests, chunks, uploads, repairs, clock, stored, last>>
gsiVars == <<index, index_adds, indexed>>
lockVars == <<lock, pc>>
fileVars == <<mfile, handles>>

-----------------------------------------------------------------------------
(* Bounds of the model *)

\* virtual nodes per physical node (ConsistentHashRing.replicas, 100 in the code)
Replicas == 2
\* processes that may be killed in one behaviour
MaxKills == 1
\* processes that may be started again in one behaviour
MaxRestarts == 1
\* upload_file calls in one behaviour; each reads a later clock value
MaxUploads == 2
\* upload_file calls in one behaviour of the search specification
MaxSearchUploads == 3
\* upload_file calls in one behaviour of the self-healing specification
MaxHealUploads == 1

\* upload_file calls in one behaviour of the partial-search specification
MaxPartialUploads == 1
\* upload_file calls in one behaviour of the graceful-leave specification
MaxLeaveUploads == 2
\* peers that may leave in one behaviour of the graceful-leave specification
MaxLeaves == 1
\* index entries written or being written in one behaviour of the index specification
MaxIndexEntries == 3
\* upload_file calls in one behaviour of the Metadata specification
MaxGsiUploads == 2
\* upload_file calls in one behaviour of the Semantic search specification
MaxRouteUploads == 2

Peers == {"p1", "p2", "p3"}
None == "none"

-----------------------------------------------------------------------------
(* hashing.py: the consistent-hash ring *)

\* MD5 of the virtual node key "<node>#<i>", as a ring position
VNodePositions ==
    [p1 |-> <<5, 40, 22, 61>>, p2 |-> <<12, 47, 58, 17>>, p3 |-> <<30, 33, 51, 2>>]

\* SHA-1 hex digest of a string or of chunk bytes: injective on the model's values
Sha1(x) == <<"sha1", x>>

\* MD5 of an item key handed to the ring (always a SHA-1 hex digest), as a ring position
KeyPositions ==
    [f1 |-> 8, f2 |-> 35, action |-> 20, unknown |-> 45,
     d1 |-> 3, d2 |-> 31, d3 |-> 41]
    @@ ("genre:action:0" :> 10) @@ ("genre:action:1" :> 25) @@ ("genre:action:2" :> 38)
    @@ ("actor:pitt:0" :> 43) @@ ("actor:pitt:1" :> 1) @@ ("actor:pitt:2" :> 32)
    @@ ("" :> 15)

_hash(key) == KeyPositions[key[2]]
_hashVNode(node, i) == VNodePositions[node][i + 1]

EmptyRing == [ring |-> <<>>, sorted_keys |-> <<>>]

\* bisect.bisect (bisect_right) on a sorted list: 0-based insertion index
Bisect(s, x) == Cardinality({i \in 1..Len(s) : s[i] <= x})

\* bisect.insort
Insort(s, x) ==
    LET k == Bisect(s, x)
    IN SubSeq(s, 1, k) \o <<x>> \o SubSeq(s, k + 1, Len(s))

\* list.remove(x): removes the first occurrence
ListRemove(s, x) ==
    IF \E i \in 1..Len(s) : s[i] = x
    THEN LET k == CHOOSE i \in 1..Len(s) : s[i] = x /\ \A j \in 1..(i - 1) : s[j] # x
         IN SubSeq(s, 1, k - 1) \o SubSeq(s, k + 1, Len(s))
    ELSE s

\* dict assignment d[k] = v
DictPut(d, k, v) == [x \in (DOMAIN d) \cup {k} |-> IF x = k THEN v ELSE d[x]]
\* del d[k]
DictDel(d, k) == [x \in (DOMAIN d) \ {k} |-> d[x]]

RECURSIVE AddVNodes(_, _, _)
AddVNodes(r, node, i) ==
    IF i >= Replicas THEN r
    ELSE LET key_hash == _hashVNode(node, i)
         IN AddVNodes([ring |-> DictPut(r.ring, key_hash, node),
                       sorted_keys |-> Insort(r.sorted_keys, key_hash)], node, i + 1)

add_node(r, node) == AddVNodes(r, node, 0)

RECURSIVE RemoveVNodes(_, _, _)
RemoveVNodes(r, node, i) ==
    IF i >= Replicas THEN r
    ELSE LET key_hash == _hashVNode(node, i)
         IN RemoveVNodes(
                IF key_hash \in DOMAIN r.ring
                THEN [ring |-> DictDel(r.ring, key_hash),
                      sorted_keys |-> ListRemove(r.sorted_keys, key_hash)]
                ELSE r, node, i + 1)

remove_node(r, node) == RemoveVNodes(r, node, 0)

RECURSIVE RingOf(_, _)
RingOf(nodes, k) ==
    IF k = 0 THEN EmptyRing ELSE add_node(RingOf(nodes, k - 1), nodes[k])

\* ConsistentHashRing(nodes)
NewRing(nodes) == RingOf(nodes, Len(nodes))

\* the exception of self.ring[key_hash] for a position that has no node
KeyError == "KeyError"
\* the same exception leaving a method that returns a list
Raised == <<KeyError>>

\* placement by the hash modulo the number of nodes, the nodes taken in the
\* order of their lowest positions
get_node_modulo(r, item_key) ==
    IF DOMAIN r.ring = {} THEN None
    ELSE LET nodes == {r.ring[k] : k \in DOMAIN r.ring}
             low(n) == CHOOSE k \in DOMAIN r.ring :
                          r.ring[k] = n /\ \A k2 \in DOMAIN r.ring : r.ring[k2] = n => k <= k2
             idx == _hash(item_key) % Cardinality(nodes)
         IN CHOOSE n \in nodes : Cardinality({m \in nodes : low(m) < low(n)}) = idx

get_node(r, item_key) ==
    IF DOMAIN r.ring = {} THEN None
    ELSE LET idx0 == Bisect(r.sorted_keys, _hash(item_key))
             idx == IF idx0 = Len(r.sorted_keys) THEN 0 ELSE idx0
         IN IF r.sorted_keys[idx + 1] \in DOMAIN r.ring
            THEN r.ring[r.sorted_keys[idx + 1]] ELSE KeyError

RECURSIVE SuccLoop(_, _, _, _, _)
SuccLoop(r, count, idx, attempts, unique_nodes) ==
    IF ~(Len(unique_nodes) < count /\ attempts < 2 * Len(r.sorted_keys)) THEN unique_nodes
    ELSE LET i == IF idx = Len(r.sorted_keys) THEN 0 ELSE idx
             physical_node == r.ring[r.sorted_keys[i + 1]]
         IN IF r.sorted_keys[i + 1] \notin DOMAIN r.ring THEN Raised
            ELSE SuccLoop(r, count, i + 1, attempts + 1,
                     IF \E j \in 1..Len(unique_nodes) : unique_nodes[j] = physical_node
                     THEN unique_nodes
                     ELSE Append(unique_nodes, physical_node))

get_successors(r, item_key, count) ==
    IF DOMAIN r.ring = {} THEN <<>>
    ELSE SuccLoop(r, count, Bisect(r.sorted_keys, _hash(item_key)), 0, <<>>)

\* the physical nodes of a ring
RingNodes(r) == {r.ring[k] : k \in DOMAIN r.ring}

\* position k1 comes before position k2 on the way round the ring that starts
\* right after position h
Clockwise(h, k1, k2) ==
    \/ k1 > h /\ k2 <= h
    \/ (k1 > h) = (k2 > h) /\ k1 < k2

\* the first position of node on that way, among the positions the mapping
\* gives to node
FirstPosition(r, h, node) ==
    CHOOSE k \in {x \in DOMAIN r.ring : r.ring[x] = node} :
        \A k2 \in {x \in DOMAIN r.ring : r.ring[x] = node} : k2 = k \/ Clockwise(h, k, k2)

Range(s) == {s[i] : i \in 1..Len(s)}


-----------------------------------------------------------------------------
(* The values of the model *)

\* KNOWN_PEERS of each peer as generate_compose.py writes it: every other peer
bootstrap_peers ==
    [p1 |-> <<"p2", "p3">>, p2 |-> <<"p1", "p3">>, p3 |-> <<"p1", "p2">>]

\* KNOWN_PEERS as peer_gui.py hands it to a container it creates: one list for
\* every peer, the peer itself included.  attempt_rejoin skips the peer itself,
\* so the snapshot bootstrap_peers of such a peer names the same targets in the
\* same order as the list above.
gui_known_peers == <<"p1", "p2", "p3">>

Filenames == {"f1", "f2"}
\* the peers that receive POST /store_file
Uploaders == {"p1", "p2"}
ManifestHashes == {Sha1(f) : f \in Filenames}

\* the bytes of the files on the uploaders' disks, as CHUNK_SIZE pieces (split_file)
split_file ==
    [f1 |-> <<"d1", "d2">>, f2 |-> <<"d3">>]
ChunkData == {"d1", "d2", "d3"}
ChunkHashes == {Sha1(d) : d \in ChunkData}

NoManifest == [absent |-> TRUE]
NoData == "none"
NoUpload == [absent |-> TRUE]
\* a manifest without the key updated_at / placement_key
NoTs == 0 - 1
NoKey == "none"


-----------------------------------------------------------------------------
(* base.py: membership.  M is the membership state of the cluster,          *)
(* [known_peers, ring, last_seen], so that one handler can call another.    *)

Membership == [known_peers |-> known_peers, ring |-> ring, last_seen |-> last_seen]

\* BasePeer.__init__
NewPeer(M, p, peers) ==
    [known_peers |-> [M.known_peers EXCEPT ![p] = peers],
     ring |-> [M.ring EXCEPT ![p] = NewRing(peers \o <<p>>)],
     last_seen |-> [M.last_seen EXCEPT ![p] = Range(peers)]]

\* a merge step that leaves out the test for the peer's own id
MergeOneWithSelf(M, p, q) ==
    IF q \notin Range(M.known_peers[p])
    THEN [known_peers |-> [M.known_peers EXCEPT ![p] = Append(@, q)],
          ring |-> [M.ring EXCEPT ![p] = add_node(@, q)],
          last_seen |-> [M.last_seen EXCEPT ![p] = @ \cup {q}]]
    ELSE M

\* the body of the loop of BasePeer._merge_peers for one element
MergeOne(M, p, q) ==
    IF q \notin Range(M.known_peers[p]) /\ q # p
    THEN [known_peers |-> [M.known_peers EXCEPT ![p] = Append(@, q)],
          ring |-> [M.ring EXCEPT ![p] = add_node(@, q)],
          last_seen |-> [M.last_seen EXCEPT ![p] = @ \cup {q}]]
    ELSE M

RECURSIVE MergeLoop(_, _, _, _)
MergeLoop(M, p, new_peers, k) ==
    IF k > Len(new_peers) THEN M
    ELSE MergeLoop(MergeOne(M, p, new_peers[k]), p, new_peers, k + 1)

\* BasePeer._merge_peers, under self.lock
_merge_peers(M, p, new_peers) == MergeLoop(M, p, new_peers, 1)

\* BasePeer._remove_peer, under self.lock
_remove_peer(M, p, peer_id) ==
    IF peer_id \in Range(M.known_peers[p])
    THEN [known_peers |-> [M.known_peers EXCEPT ![p] = ListRemove(@, peer_id)],
          ring |-> [M.ring EXCEPT ![p] = remove_node(@, peer_id)],
          last_seen |-> M.last_seen]
    ELSE M

\* an announce that is lost on its way
LostAnnounce(M, q, new_peer) == M

\* api.announce on peer q, reached by a POST that fails when q is down
announce(M, q, new_peer) ==
    IF alive[q] THEN _merge_peers(M, q, <<new_peer>>) ELSE M

RECURSIVE AnnounceLoop(_, _, _, _, _)
AnnounceLoop(M, b, new_peer, targets, k) ==
    IF k > Len(targets) THEN M
    ELSE AnnounceLoop(
            IF targets[k] # b /\ targets[k] # new_peer
            THEN announce(M, targets[k], new_peer) ELSE M,
            b, new_peer, targets, k + 1)

\* api.join on peer b: merge, announce to the others, reply with the view
join(M, b, new_peer) ==
    LET M1 == _merge_peers(M, b, <<new_peer>>)
    IN AnnounceLoop(M1, b, new_peer, M1.known_peers[b], 1)

\* api.announce_leave on peer q
announce_leave(M, q, leaving_peer) ==
    IF alive[q] THEN _remove_peer(M, q, leaving_peer) ELSE M

RECURSIVE AnnounceLeaveLoop(_, _, _, _)
AnnounceLeaveLoop(M, p, targets, k) ==
    IF k > Len(targets) THEN M
    ELSE AnnounceLeaveLoop(announce_leave(M, targets[k], p), p, targets, k + 1)

\* api.update_peers on peer q
update_peers(M, q, peers_list) ==
    IF alive[q] /\ peers_list # <<>> THEN _merge_peers(M, q, peers_list) ELSE M

SetMembership(M) ==
    /\ known_peers' = M.known_peers
    /\ ring' = M.ring
    /\ last_seen' = M.last_seen

\* the first bootstrap peer that answers the join request
FirstAnswering(p, b) ==
    \E k \in 1..Len(bootstrap_peers[p]) :
        /\ bootstrap_peers[p][k] = b
        /\ b # p
        /\ alive[b]
        /\ \A j \in 1..(k - 1) : ~alive[bootstrap_peers[p][j]] \/ bootstrap_peers[p][j] = p

\* BasePeer.attempt_rejoin: the first bootstrap peer that answers handles the
\* join and its reply is merged; with no bootstrap peer answering in any retry
\* the peer goes on alone
attempt_rejoin(p) ==
    /\ alive[p] /\ rejoin[p] = "trying"
    /\ IF \E b \in Peers : FirstAnswering(p, b)
       THEN LET b == CHOOSE b \in Peers : FirstAnswering(p, b)
                M1 == join(Membership, b, p)
                reply == M1.known_peers[b]
            IN SetMembership(_merge_peers(M1, p, reply))
       ELSE UNCHANGED <<known_peers, ring, last_seen>>
    /\ rejoin' = [rejoin EXCEPT ![p] = "done"]
    /\ UNCHANGED <<gsiVars, lockVars, alive, left, fd, kills, restarts, victim, dataVars, fileVars>>

\* time passes: the last_seen entry of q on p becomes older than failure_timeout.
\* heartbeat_interval (5 s) is a third of failure_timeout (15 s), so the entry of
\* a peer that answers its pings is refreshed before it gets that old.
Tick(p, q) ==
    /\ alive[p] /\ ~alive[q] /\ q \in last_seen[p]
    /\ last_seen' = [last_seen EXCEPT ![p] = @ \ {q}]
    /\ UNCHANGED <<gsiVars, lockVars, alive, left, known_peers, ring, rejoin, fd, kills, restarts,
                   victim, dataVars, fileVars>>

\* BasePeer.failure_detector / ping_peer: the ping of q, a peer of the snapshot.
\* The snapshot is a copy of known_peers; its position is not kept, any member
\* may be the next one pinged.  A ping that fails is acted upon in FDCheck.
FDPing(p, q) ==
    /\ alive[p] /\ fd[p] = None
    /\ q \in Range(known_peers[p]) /\ q # p
    /\ IF alive[q]
       THEN /\ last_seen' = [last_seen EXCEPT ![p] = @ \cup {q}]
            /\ fd' = fd
       ELSE /\ fd' = [fd EXCEPT ![p] = q]
            /\ last_seen' = last_seen
    /\ UNCHANGED <<gsiVars, lockVars, alive, left, known_peers, ring, rejoin, kills, restarts, victim,
                   dataVars, fileVars>>

\* BasePeer.failure_detector: after the failed ping of fd[p], the timeout check
\* and the removal
FDCheck(p) ==
    /\ alive[p] /\ fd[p] # None
    /\ LET q == fd[p]
           expired == q \notin last_seen[p]
       IN SetMembership(IF expired THEN _remove_peer(Membership, p, q) ELSE Membership)
    /\ fd' = [fd EXCEPT ![p] = None]
    /\ UNCHANGED <<gsiVars, lockVars, alive, left, rejoin, kills, restarts, victim, dataVars, fileVars>>

\* BasePeer.gossip_known_peers_loop: my_list is copied and posted to q, one of
\* its peers; api.update_peers runs on q
GossipSend(p, q) ==
    /\ alive[p]
    /\ q \in Range(known_peers[p]) /\ q # p
    /\ LET my_list == known_peers[p]
       IN SetMembership(update_peers(Membership, q, my_list))
    /\ UNCHANGED <<gsiVars, lockVars, alive, left, rejoin, fd, kills, restarts, victim, dataVars, fileVars>>

-----------------------------------------------------------------------------
(* base.py, api.py: the threads of one peer and BasePeer.lock, step by step *)

\* the threads of a peer that touch the membership state: failure_detector,
\* gossip_known_peers_loop and a request handler
Threads == {"fd", "gossip", "handler"}

\* a thread between two rounds, or without a request
Idle == [at |-> "idle", op |-> "", arg |-> <<>>, list |-> <<>>, k |-> 0]

\* a thread that leaves its critical section without giving the lock back
KeepLock(l, p) == l

\* the exit of a with self.lock block
Release(l, p) == [l EXCEPT ![p] = None]

\* the entry of a with self.lock block of thread t
Acquire(p, t, next) ==
    /\ alive[p] /\ pc[p][t].at = "lock" /\ lock[p] = None
    /\ lock' = [lock EXCEPT ![p] = t]
    /\ pc' = [pc EXCEPT ![p][t].at = next]
    /\ UNCHANGED <<memberVars, dataVars, gsiVars, fileVars>>

\* failure_detector wakes up and asks for the lock to copy known_peers
FdWake(p) ==
    /\ alive[p] /\ pc[p]["fd"].at = "idle"
    /\ pc' = [pc EXCEPT ![p]["fd"] = [Idle EXCEPT !.at = "lock", !.op = "snapshot"]]
    /\ UNCHANGED <<memberVars, dataVars, gsiVars, lock, fileVars>>

FdLock(p) == pc[p]["fd"].op = "snapshot" /\ Acquire(p, "fd", "snapshot")

\* snapshot = list(self.known_peers), and the lock is released
FdSnapshot(p) ==
    /\ alive[p] /\ pc[p]["fd"].at = "snapshot"
    /\ pc' = [pc EXCEPT ![p]["fd"] =
                 [Idle EXCEPT !.at = "ping", !.arg = known_peers[p]]]
    /\ lock' = Release(lock, p)
    /\ UNCHANGED <<memberVars, dataVars, gsiVars, fileVars>>

\* the for loop of failure_detector: the round ends, or the peer itself is skipped
FdLoop(p) ==
    /\ alive[p] /\ pc[p]["fd"].at = "ping"
    /\ \/ pc[p]["fd"].arg = <<>> /\ pc' = [pc EXCEPT ![p]["fd"] = Idle]
       \/ /\ pc[p]["fd"].arg # <<>> /\ Head(pc[p]["fd"].arg) = p
          /\ pc' = [pc EXCEPT ![p]["fd"].arg = Tail(@)]
    /\ UNCHANGED <<memberVars, dataVars, gsiVars, lock, fileVars>>

\* ping_peer: requests.get of /ping on the next peer of the snapshot
FdPingCall(p) ==
    /\ alive[p] /\ pc[p]["fd"].at = "ping"
    /\ pc[p]["fd"].arg # <<>> /\ Head(pc[p]["fd"].arg) # p
    /\ pc' = [pc EXCEPT ![p]["fd"].at =
                 IF alive[Head(pc[p]["fd"].arg)] THEN "refresh" ELSE "check"]
    /\ UNCHANGED <<memberVars, dataVars, gsiVars, lock, fileVars>>

\* ping_peer after the answer: self.last_seen[peer_addr] = time.time()
FdRefresh(p) ==
    /\ alive[p] /\ pc[p]["fd"].at = "refresh"
    /\ last_seen' = [last_seen EXCEPT ![p] = @ \cup {Head(pc[p]["fd"].arg)}]
    /\ pc' = [pc EXCEPT ![p]["fd"].at = "ping", ![p]["fd"].arg = Tail(@)]
    /\ UNCHANGED <<alive, left, known_peers, ring, rejoin, fd, kills, restarts, victim,
                   dataVars, gsiVars, lock, fileVars>>

\* a failure detector that takes every failed ping for a timeout
AlwaysExpired(seen, q) == TRUE

\* time.time() - self.last_seen.get(p, 0) > self.failure_timeout
Expired(seen, q) == q \notin seen

\* failure_detector after a failed ping: the timeout test on last_seen
FdTimeout(p) ==
    /\ alive[p] /\ pc[p]["fd"].at = "check"
    /\ pc' = [pc EXCEPT ![p]["fd"] =
                 IF Expired(last_seen[p], Head(pc[p]["fd"].arg))
                 THEN [@ EXCEPT !.at = "lock", !.op = "remove"]
                 ELSE [@ EXCEPT !.at = "ping", !.arg = Tail(@)]]
    /\ UNCHANGED <<memberVars, dataVars, gsiVars, lock, fileVars>>

FdRemoveLock(p) == pc[p]["fd"].op = "remove" /\ Acquire(p, "fd", "remove")

\* _remove_peer of the failure detector, and the lock is released
FdRemove(p) ==
    /\ alive[p] /\ pc[p]["fd"].at = "remove"
    /\ SetMembership(_remove_peer(Membership, p, Head(pc[p]["fd"].arg)))
    /\ pc' = [pc EXCEPT ![p]["fd"] = [@ EXCEPT !.at = "ping", !.op = "", !.arg = Tail(@)]]
    /\ lock' = Release(lock, p)
    /\ UNCHANGED <<alive, left, rejoin, fd, kills, restarts, victim, dataVars, gsiVars, fileVars>>

\* gossip_known_peers_loop wakes up and asks for the lock to copy known_peers
GossipWake(p) ==
    /\ alive[p] /\ pc[p]["gossip"].at = "idle"
    /\ pc' = [pc EXCEPT ![p]["gossip"] = [Idle EXCEPT !.at = "lock"]]
    /\ UNCHANGED <<memberVars, dataVars, gsiVars, lock, fileVars>>

GossipLock(p) == pc[p]["gossip"].at = "lock" /\ Acquire(p, "gossip", "copy")

\* my_list = list(self.known_peers), and the lock is released
GossipCopy(p) ==
    /\ alive[p] /\ pc[p]["gossip"].at = "copy"
    /\ pc' = [pc EXCEPT ![p]["gossip"] =
                 [Idle EXCEPT !.at = "post", !.arg = known_peers[p],
                              !.list = known_peers[p]]]
    /\ lock' = Release(lock, p)
    /\ UNCHANGED <<memberVars, dataVars, gsiVars, fileVars>>

\* the for loop of the gossip round: the round ends, or the peer itself is skipped
GossipLoop(p) ==
    /\ alive[p] /\ pc[p]["gossip"].at = "post"
    /\ \/ pc[p]["gossip"].arg = <<>> /\ pc' = [pc EXCEPT ![p]["gossip"] = Idle]
       \/ /\ pc[p]["gossip"].arg # <<>> /\ Head(pc[p]["gossip"].arg) = p
          /\ pc' = [pc EXCEPT ![p]["gossip"].arg = Tail(@)]
    /\ UNCHANGED <<memberVars, dataVars, gsiVars, lock, fileVars>>

\* requests.post of /update_peers to the next peer of my_list, whose handler
\* runs api.update_peers
GossipPost(p) ==
    /\ alive[p] /\ pc[p]["gossip"].at = "post"
    /\ pc[p]["gossip"].arg # <<>> /\ Head(pc[p]["gossip"].arg) # p
    /\ lock[Head(pc[p]["gossip"].arg)] = None
    /\ SetMembership(update_peers(Membership, Head(pc[p]["gossip"].arg),
                                  pc[p]["gossip"].list))
    /\ pc' = [pc EXCEPT ![p]["gossip"].arg = Tail(@)]
    /\ UNCHANGED <<alive, left, rejoin, fd, kills, restarts, victim, dataVars, gsiVars,
                   lock, fileVars>>

\* the requests that reach the membership handlers of a peer
HandlerOps == {"join", "announce", "announce_leave", "update_peers"}

\* the peer lists a request may carry: one peer other than the receiver for
\* join, announce and announce_leave, any short list for update_peers
HandlerArgs(p, op) ==
    IF op = "update_peers"
    THEN {<<a>> : a \in Peers} \cup {<<a, b>> : a \in Peers, b \in Peers}
    ELSE {<<a>> : a \in Peers \ {p}}

\* a request arrives: the handler calls _merge_peers or _remove_peer, which
\* asks for the lock first; arg is the list of peers of the request
HandlerStart(p, op, arg) ==
    /\ alive[p] /\ pc[p]["handler"].at = "idle"
    /\ op \in HandlerOps /\ arg \in HandlerArgs(p, op)
    /\ pc' = [pc EXCEPT ![p]["handler"] =
                 [Idle EXCEPT !.at = "lock", !.op = op, !.arg = arg]]
    /\ UNCHANGED <<memberVars, dataVars, gsiVars, lock, fileVars>>

HandlerLock(p) == pc[p]["handler"].at = "lock" /\ Acquire(p, "handler", "body")

\* _merge_peers or _remove_peer of the handler, and the lock is released;
\* api.join goes on to its loop over self.known_peers
HandlerBody(p) ==
    /\ alive[p] /\ pc[p]["handler"].at = "body"
    /\ LET h == pc[p]["handler"]
       IN /\ SetMembership(IF h.op = "announce_leave"
                           THEN _remove_peer(Membership, p, h.arg[1])
                           ELSE _merge_peers(Membership, p, h.arg))
          /\ pc' = [pc EXCEPT ![p]["handler"] =
                       IF h.op = "join" THEN [h EXCEPT !.at = "announce", !.k = 1]
                       ELSE Idle]
    /\ lock' = Release(lock, p)
    /\ UNCHANGED <<alive, left, rejoin, fd, kills, restarts, victim, dataVars, gsiVars, fileVars>>

\* api.join: the loop over the list self.known_peers itself has come to its
\* end and the reply is built, or it steps over the peer itself or the new peer
JoinLoop(p) ==
    /\ alive[p] /\ pc[p]["handler"].at = "announce"
    /\ LET h == pc[p]["handler"]
       IN \/ h.k > Len(known_peers[p]) /\ pc' = [pc EXCEPT ![p]["handler"] = Idle]
          \/ /\ h.k <= Len(known_peers[p])
             /\ known_peers[p][h.k] \in {p, h.arg[1]}
             /\ pc' = [pc EXCEPT ![p]["handler"].k = @ + 1]
    /\ UNCHANGED <<memberVars, dataVars, gsiVars, lock, fileVars>>

\* api.join: requests.post of /announce to the next peer of self.known_peers
JoinAnnounce(p) ==
    /\ alive[p] /\ pc[p]["handler"].at = "announce"
    /\ LET h == pc[p]["handler"]
       IN /\ h.k <= Len(known_peers[p])
          /\ known_peers[p][h.k] \notin {p, h.arg[1]}
          /\ lock[known_peers[p][h.k]] = None
          /\ SetMembership(announce(Membership, known_peers[p][h.k], h.arg[1]))
          /\ pc' = [pc EXCEPT ![p]["handler"].k = @ + 1]
    /\ UNCHANGED <<alive, left, rejoin, fd, kills, restarts, victim, dataVars, gsiVars,
                   lock, fileVars>>

\* a step of thread t of peer p
ThreadStep(p, t) ==
    \/ t = "fd" /\ (FdWake(p) \/ FdLock(p) \/ FdSnapshot(p) \/ FdLoop(p) \/ FdPingCall(p)
                    \/ FdRefresh(p) \/ FdTimeout(p) \/ FdRemoveLock(p) \/ FdRemove(p))
    \/ t = "gossip" /\ (GossipWake(p) \/ GossipLock(p) \/ GossipCopy(p) \/ GossipLoop(p)
                        \/ GossipPost(p))
    \/ t = "handler" /\ (HandlerLock(p) \/ HandlerBody(p) \/ JoinLoop(p) \/ JoinAnnounce(p)
                         \/ \E op \in HandlerOps : \E arg \in HandlerArgs(p, op) :
                                HandlerStart(p, op, arg))

\* a step of thread t of peer p that is an outbound request
NetworkStep(p, t) ==
    \/ t = "fd" /\ FdPingCall(p)
    \/ t = "gossip" /\ GossipPost(p)
    \/ t = "handler" /\ JoinAnnounce(p)

-----
(* storage.py: the object store.  D is the content of the data directories  *)
(* of the cluster, [manifests, chunks].                                     *)

Disks == [manifests |-> manifests, chunks |-> chunks]

SetDisks(D) ==
    /\ manifests' = D.manifests
    /\ chunks' = D.chunks

\* Storage.save_chunk: the file named chunk_hash gets the bytes, whatever their hash
save_chunk(D, p, chunk_hash, data) ==
    [D EXCEPT !.chunks[p][chunk_hash] = data]

\* Storage.load_chunk
load_chunk(D, p, chunk_hash) == D.chunks[p][chunk_hash]

\* Storage.save_manifest: the file named after SHA-1(filename) is overwritten
save_manifest(D, p, manifest) ==
    [D EXCEPT !.manifests[p][Sha1(manifest.filename)] = manifest]

\* Storage.load_manifest
load_manifest(D, p, filename) == D.manifests[p][Sha1(filename)]

\* Storage.remove_local_manifest
remove_local_manifest(D, p, filename) ==
    [D EXCEPT !.manifests[p][Sha1(filename)] = NoManifest]

\* Storage.list_local_manifests, as a set: the manifest files of the directory
list_local_manifests(D, p) ==
    {D.manifests[p][h] : h \in ManifestHashes} \ {NoManifest}

\* manifest.get("updated_at", 0)
UpdatedAt(m) == IF m.updated_at = NoTs THEN 0 ELSE m.updated_at

\* a store_chunk that files every chunk under one name
StoreChunkUnderOneName(D, q, data) ==
    IF alive[q] THEN save_chunk(D, q, Sha1("d1"), data) ELSE D

\* api.store_chunk on peer q: the server recomputes the SHA-1 of the bytes it got
store_chunk(D, q, data) ==
    IF alive[q] THEN save_chunk(D, q, Sha1(data), data) ELSE D

\* api.store_manifest on peer q, reached by a POST that fails when q is down
store_manifest(D, q, manifest) ==
    IF alive[q] THEN save_manifest(D, q, manifest) ELSE D

\* api.get_manifest on peer q: the manifest, or NoManifest for 404 or no answer
get_manifest(D, q, filename) ==
    IF alive[q] THEN load_manifest(D, q, filename) ELSE NoManifest

\* api.get_chunk on peer q: the bytes, or NoData for 404 or no answer
get_chunk(D, q, chunk_hash) ==
    IF alive[q] THEN load_chunk(D, q, chunk_hash) ELSE NoData

\* api.check_existence on peer q for one manifest hash: TRUE when reported missing
check_existence(D, q, m_hash) == D.manifests[q][m_hash] = NoManifest


-----------------------------------------------------------------------------
(* storage.py: the manifest file, one file operation at a time *)

\* the writes json.dump makes for one manifest
FileLen == 2

\* json.dump(manifest, f, indent=2): the pieces of text written, in order
Serialize(manifest) == [k \in 1..FileLen |-> [of |-> manifest, piece |-> k]]

\* a stretch of a file nothing was written to
Hole == [of |-> NoManifest, piece |-> 0]

\* no file of that name, and a file just opened with mode "w"
NoFile == [exists |-> FALSE, bytes |-> <<>>]
EmptyFile == [exists |-> TRUE, bytes |-> <<>>]

\* the save_manifest calls that can be under way at a time, and a call not under way
Writers == {"w1", "w2"}
NoHandle == [open |-> FALSE]

\* json.load(f): the manifest when the text is the whole text of one
\* manifest, otherwise JSONDecodeError
Parse(bytes) ==
    IF Len(bytes) = FileLen /\ bytes[1].of # NoManifest /\ bytes = Serialize(bytes[1].of)
    THEN [ok |-> TRUE, manifest |-> bytes[1].of]
    ELSE [ok |-> FALSE, manifest |-> NoManifest]

\* the text of a file after a write of piece at offset pos (0-based)
WriteAt(bytes, pos, piece) ==
    [k \in 1..(IF Len(bytes) > pos + 1 THEN Len(bytes) ELSE pos + 1) |->
        IF k = pos + 1 THEN piece
        ELSE IF k <= Len(bytes) THEN bytes[k] ELSE Hole]

\* what the file held when it was opened: a manifest, or NoManifest
Before(file) ==
    IF file.exists /\ Parse(file.bytes).ok THEN Parse(file.bytes).manifest ELSE NoManifest

\* Storage.save_manifest, open(path, "w"): the file is created or cut to
\* length 0 where it is
SaveManifestOpen(w, p, manifest) ==
    /\ alive[p] /\ handles[w] = NoHandle
    /\ handles' = [handles EXCEPT ![w] =
                      [open |-> TRUE, node |-> p, hash |-> Sha1(manifest.filename),
                       manifest |-> manifest, pos |-> 0,
                       before |-> Before(mfile[p][Sha1(manifest.filename)])]]
    /\ mfile' = [mfile EXCEPT ![p][Sha1(manifest.filename)] = EmptyFile]
    /\ UNCHANGED <<memberVars, dataVars, gsiVars, lockVars>>

\* Storage.save_manifest, json.dump: the next piece goes to the file at the
\* position of the handle
SaveManifestWrite(w) ==
    /\ handles[w] # NoHandle /\ handles[w].pos < FileLen
    /\ LET h == handles[w]
       IN mfile' = [mfile EXCEPT ![h.node][h.hash].bytes =
                       WriteAt(@, h.pos, Serialize(h.manifest)[h.pos + 1])]
    /\ handles' = [handles EXCEPT ![w].pos = @ + 1]
    /\ UNCHANGED <<memberVars, dataVars, gsiVars, lockVars>>

\* Storage.save_manifest, the end of the with block
SaveManifestClose(w) ==
    /\ handles[w] # NoHandle /\ handles[w].pos = FileLen
    /\ handles' = [handles EXCEPT ![w] = NoHandle]
    /\ UNCHANGED <<memberVars, dataVars, gsiVars, lockVars, mfile>>

\* the save_manifest calls that have the file of filename on p open, and the
\* manifests a reader may find: what the file held before such a call, or
\* what the call writes
SavesUnderWay(p, filename) ==
    {w \in Writers : handles[w] # NoHandle /\ handles[w].node = p
                     /\ handles[w].hash = Sha1(filename)}
OldOrNew(p, filename) ==
    UNION {{handles[w].before, handles[w].manifest} : w \in SavesUnderWay(p, filename)}

\* Storage.load_manifest on the file: None without a file, the manifest, or
\* the JSONDecodeError of json.load
LoadManifest(p, filename) ==
    /\ alive[p]
    /\ LET file == mfile[p][Sha1(filename)]
       IN last' = [op |-> "load_manifest", peer |-> p, filename |-> filename,
                   raised |-> file.exists /\ ~Parse(file.bytes).ok,
                   result |-> IF file.exists THEN Parse(file.bytes).manifest ELSE NoManifest,
                   saving |-> SavesUnderWay(p, filename) # {},
                   old_or_new |-> OldOrNew(p, filename)]
    /\ UNCHANGED <<memberVars, gsiVars, lockVars, fileVars, mode, manifests, chunks, uploads,
                   repairs, clock, stored>>

\* Storage.list_local_manifests on the files: a file that does not parse is
\* reported and left out
ListManifests(p) ==
    /\ alive[p]
    /\ last' = [op |-> "list_local_manifests", peer |-> p,
                results |-> {Parse(mfile[p][h].bytes).manifest :
                                h \in {x \in ManifestHashes :
                                          mfile[p][x].exists /\ Parse(mfile[p][x].bytes).ok}},
                files |-> {h \in ManifestHashes : mfile[p][h].exists}]
    /\ UNCHANGED <<memberVars, gsiVars, lockVars, fileVars, mode, manifests, chunks, uploads,
                   repairs, clock, stored>>

-----------------------------------------------------------------------------
(* naive.py, semantic.py: upload_file *)

\* replication factor of the write path (count=3 in NaivePeer.upload_file)
K == 3
\* count handed to get_successors by NaivePeer._repair_manifests
RepairCount == 2

\* the genre values of the uploads; "" stands for metadata without the key
Genres == {"Action", ""}
\* str.lower().strip() on the strings of the model
Normalize == ("Action" :> "action") @@ ("" :> "") @@ ("f1" :> "f1") @@ ("f2" :> "f2")
             @@ ("F2" :> "f2") @@ ("ACTION " :> "action") @@ ("Pitt" :> "pitt")

\* the chunk descriptors of the manifest: every chunk lists the one node it was sent to
RECURSIVE ChunksInfo(_, _, _)
ChunksInfo(data, node_of, k) ==
    IF k > Len(data) THEN <<>>
    ELSE <<[hash |-> Sha1(data[k]), peers |-> <<node_of[k]>>]>> \o ChunksInfo(data, node_of, k + 1)

\* the loop that ships the chunks: save_chunk locally, _send_chunk otherwise
RECURSIVE SendChunks(_, _, _, _, _)
SendChunks(D, p, data, node_of, k) ==
    IF k > Len(data) THEN D
    ELSE SendChunks(IF node_of[k] = p THEN save_chunk(D, p, Sha1(data[k]), data[k])
                    ELSE store_chunk(D, node_of[k], data[k]),
                    p, data, node_of, k + 1)

\* NaivePeer.upload_file up to the manifest: chunk placement by chunk hash
NaiveUpload(p, filename, genre, now) ==
    LET data == split_file[filename]
        node_of == [k \in 1..Len(data) |-> get_node(ring[p], Sha1(data[k]))]
    IN [disks |-> SendChunks(Disks, p, data, node_of, 1),
        manifest |-> [filename |-> filename,
                      chunks |-> ChunksInfo(data, node_of, 1),
                      metadata |-> [genre |-> genre],
                      updated_at |-> now,
                      placement_key |-> NoKey],
        todo |-> get_successors(ring[p], Sha1(filename), K)]

\* the partition key of SemanticPeer.upload_file (no titolo in the model's metadata)
PartitionKey(genre) ==
    IF Normalize[genre] # "" THEN Normalize[genre] ELSE "unknown"

\* SemanticPeer.upload_file up to the manifest: everything goes to the primary node
SemanticUpload(p, filename, genre) ==
    LET data == split_file[filename]
        partition_key == PartitionKey(genre)
        primary_node == get_node(ring[p], Sha1(partition_key))
        node_of == [k \in 1..Len(data) |-> primary_node]
    IN [disks |-> SendChunks(Disks, p, data, node_of, 1),
        manifest |-> [filename |-> filename,
                      chunks |-> ChunksInfo(data, node_of, 1),
                      metadata |-> [genre |-> genre],
                      updated_at |-> NoTs,
                      placement_key |-> partition_key],
        todo |-> <<primary_node>>]

\* upload_file of the running strategy
upload_file(p, filename, genre, now) ==
    IF mode = "SEMANTIC" THEN SemanticUpload(p, filename, genre)
    ELSE NaiveUpload(p, filename, genre, now)

-----------------------------------------------------------------------------
(* metadata.py, storage.py, api.py: the global secondary index *)

\* MetadataPeer.INDEX_SHARDS
INDEX_SHARDS == 3

\* f"{key}:{str(v).lower().strip()}" for the attribute values of the model
BaseKeys ==
    [genre |-> [action |-> "genre:action"], actor |-> [pitt |-> "actor:pitt"]]
base_key(attr_key, attr_val) == BaseKeys[attr_key][Normalize[attr_val]]

\* f"{base_key}:{shard_id}"
ShardedKeys ==
    ("genre:action" :> <<"genre:action:0", "genre:action:1", "genre:action:2">>)
    @@ ("actor:pitt" :> <<"actor:pitt:0", "actor:pitt:1", "actor:pitt:2">>)
sharded_key(bk, shard_id) == ShardedKeys[bk][shard_id + 1]
AllShardedKeys == UNION {Range(ShardedKeys[bk]) : bk \in DOMAIN ShardedKeys}

\* save_index_entry without the check for a listed filename
AppendIndexEntry(entries, manifest_summary) == Append(entries, manifest_summary)

\* Storage.save_index_entry, from the entries it has loaded from the index
\* file to the entries the file holds when it returns
save_index_entry(entries, manifest_summary) ==
    IF \E i \in 1..Len(entries) : entries[i].filename = manifest_summary.filename
    THEN entries
    ELSE Append(entries, manifest_summary)

\* Storage.get_index_entries
get_index_entries(p, sharded) == index[p][sharded]

\* save_index_entry on node, as far as the load of the index file: the call
\* returns at once when the filename is listed, otherwise it goes on to write
\* the file from the entries it has loaded.  The handlers of one peer run in
\* threads of their own and the file is not locked, so other calls can load
\* and write the same file in between.
LoadIndexEntry(adds, node, sharded, manifest_summary) ==
    LET entries == get_index_entries(node, sharded)
    IN IF save_index_entry(entries, manifest_summary) = entries THEN adds
       ELSE adds \cup {[node |-> node, key |-> sharded, entries |-> entries,
                         entry |-> manifest_summary]}

\* save_index_entry writes the index file
IndexStore(t) ==
    /\ t \in index_adds /\ alive[t.node]
    /\ index' = [index EXCEPT ![t.node][t.key] = save_index_entry(t.entries, t.entry)]
    /\ index_adds' = index_adds \ {t}
    /\ UNCHANGED <<memberVars, dataVars, indexed, lockVars, fileVars>>

\* POST /index/add on node
index_add(node, sharded, entry) ==
    /\ alive[node]
    /\ index_adds' = LoadIndexEntry(index_adds, node, sharded, entry)
    /\ last' = [op |-> "index_add", node |-> node, key |-> sharded,
                filename |-> entry.filename,
                present |-> \E i \in 1..Len(index[node][sharded]) :
                                index[node][sharded][i].filename = entry.filename]
    /\ UNCHANGED <<memberVars, mode, manifests, chunks, uploads, repairs, clock, stored,
                   index, indexed, lockVars, fileVars>>

\* MetadataPeer._gsi_write of peer p with the shard that random.randint picked;
\* the metadata of the model has the one key genre, and no key when genre is "";
\* a write to a node that does not answer is dropped
_gsi_write(p, manifest, shard_id) ==
    LET summary == [filename |-> manifest.filename, metadata |-> manifest.metadata,
                    host |-> p]
        bk == base_key("genre", manifest.metadata.genre)
        sharded == sharded_key(bk, shard_id)
        target_node == get_node(ring[p], Sha1(sharded))
    IN IF manifest.metadata.genre = "" \/ ~alive[target_node]
       THEN UNCHANGED <<index_adds, indexed>>
       ELSE /\ index_adds' = LoadIndexEntry(index_adds, target_node, sharded, summary)
            /\ indexed' = indexed \cup {<<manifest.filename, bk>>}

\* _fetch_remote_index that takes a node without an answer for an empty shard
FetchIndexOrEmpty(p, node, sharded) ==
    IF node = p \/ alive[node] THEN [ok |-> TRUE, results |-> get_index_entries(node, sharded)]
    ELSE [ok |-> TRUE, results |-> <<>>]

\* MetadataPeer._fetch_remote_index: [ok, results]; ok is FALSE for None
_fetch_remote_index(p, node, sharded) ==
    IF node = p THEN [ok |-> TRUE, results |-> get_index_entries(p, sharded)]
    ELSE IF alive[node] THEN [ok |-> TRUE, results |-> get_index_entries(node, sharded)]
    ELSE [ok |-> FALSE, results |-> <<>>]

\* the orders in which as_completed can hand over the answers of the shards
ShardOrders ==
    {o \in [1..INDEX_SHARDS -> 0..(INDEX_SHARDS - 1)] :
        \A i, j \in 1..INDEX_SHARDS : o[i] = o[j] => i = j}

\* scatter and gather for one attribute of the query
RECURSIVE GatherLoop(_, _, _, _, _)
GatherLoop(st, p, bk, order, k) ==
    IF k > Len(order) THEN st
    ELSE LET sharded == sharded_key(bk, order[k])
             node == get_node(ring[p], Sha1(sharded))
             res == _fetch_remote_index(p, node, sharded)
         IN GatherLoop(IF ~res.ok THEN [st EXCEPT !.is_partial = TRUE]
                       ELSE [st EXCEPT !.attribute_matches = @ \o res.results],
                       p, bk, order, k + 1)

\* {item['filename']: item for item in items}: a later item replaces an earlier one
FinalMap(items) ==
    [f \in {items[i].filename : i \in 1..Len(items)} |->
        items[CHOOSE i \in 1..Len(items) :
                  items[i].filename = f
                  /\ \A j \in 1..Len(items) : items[j].filename = f => j <= i]]

\* the keys of the first attribute, whatever the other attributes found
KeepFirstKeys(final_keys, current_filenames) == final_keys

\* set(final_map.keys()) & current_filenames
keys_to_keep(final_keys, current_filenames) == final_keys \cap current_filenames

RECURSIVE IntersectLoop(_, _, _)
IntersectLoop(final_map, candidates_per_attribute, i) ==
    IF i > Len(candidates_per_attribute) THEN final_map
    ELSE LET items == candidates_per_attribute[i]
             current_filenames == {items[j].filename : j \in 1..Len(items)}
             keep == keys_to_keep(DOMAIN final_map, current_filenames)
         IN IntersectLoop([k \in keep |-> final_map[k]], candidates_per_attribute, i + 1)

\* MetadataPeer.search and the answer of GET /search; query is the list of the
\* items of the query dict; the result list is taken as a set
MetadataSearch(p, query, order) ==
    IF query = <<>> THEN [results |-> {}, partial_result |-> FALSE]
    ELSE LET gathered == [i \in 1..Len(query) |->
                            GatherLoop([attribute_matches |-> <<>>, is_partial |-> FALSE],
                                       p, base_key(query[i].key, query[i].val), order, 1)]
             candidates_per_attribute ==
                 [i \in 1..Len(query) |-> gathered[i].attribute_matches]
             final_map == IntersectLoop(FinalMap(candidates_per_attribute[1]),
                                        candidates_per_attribute, 2)
         IN [results |-> {final_map[f] : f \in DOMAIN final_map},
             partial_result |-> \E i \in 1..Len(query) : gathered[i].is_partial]

\* the sharded keys of one item of a query and the node p asks for each
QueryShards(item) == Range(ShardedKeys[base_key(item.key, item.val)])
ShardNode(p, sharded) == get_node(ring[p], Sha1(sharded))
Filenames_of(entries) == {entries[i].filename : i \in 1..Len(entries)}

\* GET /search on p in the Metadata strategy; down, answered and n record what
\* the search met: the shards whose node did not answer, the filenames the
\* other shards held for each attribute, and, when no upload and no index
\* write is under way and no process has stopped, the number of files whose
\* index write for the queried value has been delivered
MetaSearch(p, query, order) ==
    /\ alive[p] /\ mode = "METADATA"
    /\ LET r == MetadataSearch(p, query, order)
           down == [i \in 1..Len(query) |->
                       {k \in QueryShards(query[i]) :
                           ShardNode(p, k) # p /\ ~alive[ShardNode(p, k)]}]
       IN last' = [op |-> "metadata_search", peer |-> p, query |-> query,
                   results |-> r.results, partial_result |-> r.partial_result,
                   down |-> down,
                   answered |-> [i \in 1..Len(query) |->
                                    UNION {Filenames_of(index[ShardNode(p, k)][k]) :
                                              k \in QueryShards(query[i]) \ down[i]}],
                   settled |-> /\ index_adds = {} /\ kills = 0
                               /\ \A q \in Peers : uploads[q] = NoUpload,
                   n |-> IF query = <<>> THEN 0
                         ELSE Cardinality({f \in Filenames :
                                  <<f, base_key(query[1].key, query[1].val)>> \in indexed})]
    /\ UNCHANGED <<gsiVars, lockVars, memberVars, mode, manifests, chunks, uploads, repairs, clock,
                   stored, fileVars>>

\* POST /store_file on p: the chunks are shipped and the manifest is built
UploadStart(p, filename, genre) ==
    /\ alive[p] /\ uploads[p] = NoUpload
    /\ clock' = clock + 1
    /\ LET u == upload_file(p, filename, genre, clock + 1)
       IN /\ SetDisks(u.disks)
          /\ uploads' = [uploads EXCEPT ![p] = [manifest |-> u.manifest, todo |-> u.todo]]
    /\ last' = [op |-> "store_file"]
    /\ UNCHANGED <<gsiVars, lockVars, memberVars, mode, repairs, stored, fileVars>>

\* a path handed to POST /store_file that names no file
MissingFile == "f9"

\* os.path.exists(filepath) on the uploader
os_path_exists(filepath) == filepath \in DOMAIN split_file

\* an upload_file that takes the missing file for an empty one
EmptyUpload(p, filepath) == [disks |-> Disks, sent |-> {}, status |-> "stored"]

\* upload_file with simulate_content false for a path that names no file:
\* NaivePeer.upload_file returns at its first test, and MetadataPeer hands
\* that result on without _gsi_write; SemanticPeer.upload_file computes the
\* primary node and raises in Storage.split_file, at open(filepath, "rb"),
\* which the handler answers with status failed.  Nothing is saved or sent
\* before either point.
MissingUpload(p, filepath) == [disks |-> Disks, sent |-> {}, status |-> "failed"]

\* POST /store_file on p with simulate_content false and a path that names no file
StoreMissingFile(p, filepath, genre) ==
    /\ alive[p] /\ uploads[p] = NoUpload
    /\ ~os_path_exists(filepath)
    /\ LET u == MissingUpload(p, filepath)
       IN /\ SetDisks(u.disks)
          /\ last' = [op |-> "store_missing_file", peer |-> p, filepath |-> filepath,
                      genre |-> genre, status |-> u.status, sent |-> u.sent,
                      code |-> IF mode = "SEMANTIC" THEN 500 ELSE 400]
    /\ UNCHANGED <<gsiVars, lockVars, memberVars, mode, uploads, repairs, clock, stored,
                   fileVars>>

\* the manifest goes to the next target: save_manifest locally or _send_manifest;
\* after the last target upload_file has status "stored", and the Metadata
\* strategy goes on to _gsi_write
UploadSend(p) ==
    /\ alive[p] /\ uploads[p] # NoUpload
    /\ LET u == uploads[p]
           t == Head(u.todo)
           done == Len(u.todo) = 1
       IN /\ SetDisks(IF t = p THEN save_manifest(Disks, p, u.manifest)
                      ELSE store_manifest(Disks, t, u.manifest))
          /\ uploads' = [uploads EXCEPT ![p] =
                            IF done THEN NoUpload ELSE [u EXCEPT !.todo = Tail(@)]]
          /\ stored' = IF done THEN stored \cup {u.manifest.filename} ELSE stored
          /\ last' = [op |-> "store_file"]
          /\ IF done /\ mode = "METADATA"
             THEN \E shard_id \in 0..(INDEX_SHARDS - 1) : _gsi_write(p, u.manifest, shard_id)
             ELSE UNCHANGED <<index_adds, indexed>>
    /\ UNCHANGED <<index, lockVars, memberVars, mode, repairs, clock, fileVars>>

-----------------------------------------------------------------------------
(* base.py: download_file *)

\* the first peer of the list that serves the chunk (status 200), or None
RECURSIVE FirstServing(_, _, _, _)
FirstServing(D, peers, ch_hash, k) ==
    IF k > Len(peers) THEN None
    ELSE IF get_chunk(D, peers[k], ch_hash) # NoData THEN peers[k]
    ELSE FirstServing(D, peers, ch_hash, k + 1)

\* BasePeer._fetch_chunks: st is [disks, fetched, failed]
RECURSIVE FetchLoop(_, _, _, _)
FetchLoop(st, p, chunk_list, k) ==
    IF k > Len(chunk_list) THEN st
    ELSE LET ch_hash == chunk_list[k].hash
             src == FirstServing(st.disks, chunk_list[k].peers, ch_hash, 1)
         IN FetchLoop(
                IF load_chunk(st.disks, p, ch_hash) # NoData
                THEN [st EXCEPT !.fetched = Append(@, ch_hash)]
                ELSE IF src # None
                THEN [disks |-> save_chunk(st.disks, p, ch_hash,
                                           get_chunk(st.disks, src, ch_hash)),
                      fetched |-> Append(st.fetched, ch_hash),
                      failed |-> st.failed]
                ELSE [st EXCEPT !.failed = Append(@, ch_hash)],
                p, chunk_list, k + 1)

_fetch_chunks(D, p, manifest) ==
    FetchLoop([disks |-> D, fetched |-> <<>>, failed |-> <<>>], p, manifest.chunks, 1)

\* Storage.rebuild_file: [ok, bytes]; ok is FALSE when a chunk is missing or corrupt
RECURSIVE RebuildLoop(_, _, _, _)
RebuildLoop(D, p, chunk_list, k) ==
    IF k > Len(chunk_list) THEN [ok |-> TRUE, bytes |-> <<>>]
    ELSE LET data == load_chunk(D, p, chunk_list[k].hash)
             rest == RebuildLoop(D, p, chunk_list, k + 1)
         IN IF data = NoData \/ Sha1(data) # chunk_list[k].hash \/ ~rest.ok
            THEN [ok |-> FALSE, bytes |-> <<>>]
            ELSE [ok |-> TRUE, bytes |-> <<data>> \o rest.bytes]

\* a rebuild that writes the chunk files as they are, their hashes unchecked
RECURSIVE UncheckedLoop(_, _, _, _)
UncheckedLoop(D, p, chunk_list, k) ==
    IF k > Len(chunk_list) THEN [ok |-> TRUE, bytes |-> <<>>]
    ELSE LET data == load_chunk(D, p, chunk_list[k].hash)
             rest == UncheckedLoop(D, p, chunk_list, k + 1)
         IN IF data = NoData \/ ~rest.ok
            THEN [ok |-> FALSE, bytes |-> <<>>]
            ELSE [ok |-> TRUE, bytes |-> <<data>> \o rest.bytes]

rebuild_unchecked(D, p, manifest) == UncheckedLoop(D, p, manifest.chunks, 1)

rebuild_file(D, p, manifest) == RebuildLoop(D, p, manifest.chunks, 1)

\* BasePeer._fetch_manifest
_fetch_manifest(D, p, filename, manifest_peer) ==
    IF manifest_peer = p THEN load_manifest(D, p, filename)
    ELSE get_manifest(D, manifest_peer, filename)

\* BasePeer.download_file: [disks, status, missing, content]
download_file(D, p, filename) ==
    LET manifest_peer == get_node(ring[p], Sha1(filename))
        manifest == _fetch_manifest(D, p, filename, manifest_peer)
    IN IF manifest = NoManifest
       THEN [disks |-> D, status |-> "failed", missing |-> <<>>, content |-> <<>>]
       ELSE LET st == _fetch_chunks(D, p, manifest)
                out == rebuild_file(st.disks, p, manifest)
            IN IF st.failed # <<>>
               THEN [disks |-> st.disks, status |-> "partial", missing |-> st.failed,
                     content |-> <<>>]
               ELSE IF ~out.ok
               THEN [disks |-> st.disks, status |-> "failed_rebuild", missing |-> <<>>,
                     content |-> <<>>]
               ELSE [disks |-> st.disks, status |-> "fetched", missing |-> <<>>,
                     content |-> out.bytes]

\* the chunk files whose bytes do not hash to their name
CorruptCopies ==
    {qh \in Peers \X ChunkHashes :
        chunks[qh[1]][qh[2]] # NoData /\ Sha1(chunks[qh[1]][qh[2]]) # qh[2]}

\* the number of chunk files the disks may damage at a time
MaxCorrupt == 1

\* a disk fault: the chunk file named chunk_hash on q now holds other bytes
Corrupt(q, chunk_hash, data) ==
    /\ Cardinality(CorruptCopies) < MaxCorrupt
    /\ chunks[q][chunk_hash] # NoData
    /\ Sha1(data) # chunk_hash
    /\ chunks' = [chunks EXCEPT ![q][chunk_hash] = data]
    /\ UNCHANGED <<gsiVars, lockVars, memberVars, mode, manifests, uploads, repairs, clock,
                   stored, last, fileVars>>

\* the manifest download_file on p works from
FetchedManifest(p, filename) ==
    _fetch_manifest(Disks, p, filename, get_node(ring[p], Sha1(filename)))

\* every chunk of the manifest has an intact copy on a running peer of its list
IntactListedCopies(manifest) ==
    \A k \in 1..Len(manifest.chunks) :
        \E q \in Range(manifest.chunks[k].peers) :
            alive[q] /\ Sha1(chunks[q][manifest.chunks[k].hash]) = manifest.chunks[k].hash

\* every chunk of the file has an intact copy on a live peer
LiveCopyOfEachChunk(filename) ==
    \A k \in 1..Len(split_file[filename]) :
        \E q \in Peers : alive[q] /\ chunks[q][Sha1(split_file[filename][k])] = split_file[filename][k]

\* a download on p: the call download_file(filename) that the handler of
\* POST /fetch_file is there to make
Fetch(p, filename) ==
    /\ alive[p]
    /\ LET r == download_file(Disks, p, filename)
       IN /\ SetDisks(r.disks)
          /\ last' = [op |-> "fetch", peer |-> p, filename |-> filename,
                      status |-> r.status, missing |-> r.missing, content |-> r.content,
                      live_copies |-> LiveCopyOfEachChunk(filename)]
    /\ UNCHANGED <<gsiVars, lockVars, memberVars, mode, uploads, repairs, clock, stored, fileVars>>


-----------------------------------------------------------------------------
(* naive.py, api.py: search, read-repair *)

\* the filename values of the queries {"filename": v}
QueryValues == {"f1", "F2"}

\* the result entry built for manifest m on host q
Entry(m, q) ==
    [filename |-> m.filename, metadata |-> m.metadata, host |-> q,
     updated_at |-> UpdatedAt(m), manifest |-> m]

\* the per-field AND of the matchers for the query {"filename": v}
Matches(m, v) == Normalize[m.filename] = Normalize[v]

\* NaivePeer._search_local_storage on p, as a list in directory order
\* (at most one manifest has the filename of the query)
_search_local_storage(D, p, v) ==
    LET hits == {m \in list_local_manifests(D, p) : Matches(m, v)}
    IN IF hits = {} THEN <<>> ELSE <<Entry(CHOOSE m \in hits : TRUE, p)>>

\* api.search_local on q: the test "if match" stands after the loop over the
\* manifests, so that it sees the variables of the last manifest listed alone;
\* m_last is that manifest, NoManifest for an empty directory (status 500)
search_local(q, v, m_last) ==
    IF m_last # NoManifest /\ Matches(m_last, v) THEN <<Entry(m_last, q)>> ELSE <<>>

\* the status of the answer of api.search_local: with an empty directory the
\* loop never binds match, the test after it raises and the server answers 500
search_local_status(m_last) == IF m_last = NoManifest THEN 500 ELSE 200

\* the manifest os.listdir lists last on q, given the hash listed last
LastListed(D, q, h) ==
    IF list_local_manifests(D, q) = {} THEN NoManifest ELSE D.manifests[q][h]

\* the flooding loop of NaivePeer.search over known_peers: st is [results, partial]
RECURSIVE FloodLoop(_, _, _, _, _, _)
FloodLoop(st, D, p, v, lastOf, k) ==
    IF k > Len(known_peers[p]) THEN st
    ELSE LET q == known_peers[p][k]
         IN FloodLoop(
                IF q = p THEN st
                ELSE IF ~alive[q] THEN [st EXCEPT !.partial = TRUE]
                ELSE IF search_local_status(LastListed(D, q, lastOf[q])) # 200 THEN st
                ELSE [st EXCEPT !.results =
                         @ \o search_local(q, v, LastListed(D, q, lastOf[q]))],
                D, p, v, lastOf, k + 1)

\* the entries of one filename, in list order
RECURSIVE Versions(_, _, _)
Versions(raw, fname, k) ==
    IF k > Len(raw) THEN <<>>
    ELSE (IF raw[k].filename = fname THEN <<raw[k]>> ELSE <<>>) \o Versions(raw, fname, k + 1)

\* a winner chosen by position instead of timestamp
FirstVersion(versions) == versions[1]

\* max(versions, key=updated_at): the first entry with the highest timestamp
Winner(versions) ==
    versions[CHOOSE i \in 1..Len(versions) :
                /\ \A j \in 1..Len(versions) : versions[j].updated_at <= versions[i].updated_at
                /\ \A j \in 1..(i - 1) : versions[j].updated_at < versions[i].updated_at]

\* the repair threads started for one filename
RECURSIVE Losers(_, _, _)
Losers(versions, winner, k) ==
    IF k > Len(versions) THEN <<>>
    ELSE (IF versions[k].updated_at < winner.updated_at
          THEN <<[target |-> versions[k].host, manifest |-> winner.manifest]>>
          ELSE <<>>) \o Losers(versions, winner, k + 1)

\* NaivePeer._resolve_conflicts: the groups in order of first appearance;
\* acc is [final_list, repairs]
RECURSIVE ResolveLoop(_, _, _)
ResolveLoop(raw, k, acc) ==
    IF k > Len(raw) THEN acc
    ELSE IF \E j \in 1..(k - 1) : raw[j].filename = raw[k].filename
    THEN ResolveLoop(raw, k + 1, acc)
    ELSE LET versions == Versions(raw, raw[k].filename, 1)
             winner == Winner(versions)
         IN ResolveLoop(raw, k + 1,
                [final_list |-> Append(acc.final_list, winner),
                 repairs |-> acc.repairs \o
                     (IF winner.manifest = NoManifest THEN <<>>
                      ELSE Losers(versions, winner, 1))])

_resolve_conflicts(raw_results) ==
    ResolveLoop(raw_results, 1, [final_list |-> <<>>, repairs |-> <<>>])

\* NaivePeer.search for the query {"filename": v}: [raw, results, repairs, partial_result]
search(D, p, v, lastOf) ==
    LET flood == FloodLoop([results |-> _search_local_storage(D, p, v), partial |-> FALSE],
                           D, p, v, lastOf, 1)
        resolved == _resolve_conflicts(flood.results)
    IN [raw |-> flood.results, results |-> resolved.final_list,
        repairs |-> resolved.repairs, partial_result |-> flood.partial]

\* GET /search on p in Naive mode; the read-repair threads start with it
Search(p, v) ==
    /\ alive[p] /\ mode = "NAIVE"
    /\ \E lastOf \in [Peers -> ManifestHashes] :
        /\ \A q \in Peers : list_local_manifests(Disks, q) # {}
                               => manifests[q][lastOf[q]] # NoManifest
        /\ LET r == search(Disks, p, v, lastOf)
           IN /\ repairs' = repairs \cup
                    {[from |-> p, target |-> r.repairs[i].target,
                      manifest |-> r.repairs[i].manifest] : i \in 1..Len(r.repairs)}
              /\ last' = [op |-> "search", peer |-> p, query |-> v, raw |-> r.raw,
                          results |-> r.results, partial_result |-> r.partial_result,
                          contacted |-> {p} \cup {q \in Range(known_peers[p]) : alive[q]},
                          errored |-> {q \in Range(known_peers[p]) \ {p} :
                                          \/ ~alive[q]
                                          \/ search_local_status(
                                                LastListed(Disks, q, lastOf[q])) # 200},
                          held |-> [q \in Peers |-> manifests[q][Sha1(Normalize[v])]]]
    /\ UNCHANGED <<gsiVars, lockVars, memberVars, mode, manifests, chunks, uploads, clock, stored, fileVars>>

-----------------------------------------------------------------------------
(* semantic.py: search *)

\* the genre values of the queries {"genre": v}
GenreQueryValues == {"Action", "ACTION ", ""}

\* str.lower() on the genre values of the model
Lower == ("Action" :> "action") @@ ("ACTION " :> "action ") @@ ("" :> "")
         @@ ("action" :> "action") @@ ("Pitt" :> "pitt")
         @@ ("f1" :> "f1") @@ ("f2" :> "f2") @@ ("F2" :> "f2")

\* the matcher of _search_local_storage and of api.search_local for {"genre": v}
GenreMatches(m, v) == Lower[m.metadata.genre] = Lower[v]

\* metadata.get(k, "")
MetaGet(metadata, k) == IF k \in DOMAIN metadata THEN metadata[k] ELSE ""

\* the test of _search_local_storage for one pair of the query
PairMatches(m, k, v) ==
    IF k = "filename" THEN Lower[m.filename] = Lower[v]
    ELSE Lower[MetaGet(m.metadata, k)] = Lower[v]

\* a matcher that lets the last pair of the query decide
LastPairMatches(m, items, i) ==
    items = <<>> \/ PairMatches(m, items[Len(items)][1], items[Len(items)][2])

\* the loop of _search_local_storage over query.items() for manifest m:
\* is_match, FALSE from the first pair that does not match
RECURSIVE is_match(_, _, _)
is_match(m, items, i) ==
    IF i > Len(items) THEN TRUE
    ELSE IF ~PairMatches(m, items[i][1], items[i][2]) THEN FALSE
    ELSE is_match(m, items, i + 1)

\* NaivePeer._search_local_storage on p for any query, the result list as a
\* set; items are the pairs of the query in the order of query.items()
local_matches(D, p, items) ==
    {Entry(m, p) : m \in {x \in list_local_manifests(D, p) : is_match(x, items, 1)}}

\* _search_local_storage called on p
LocalSearch(p, items) ==
    /\ alive[p]
    /\ last' = [op |-> "local_search", peer |-> p, query |-> items,
                results |-> local_matches(Disks, p, items)]
    /\ UNCHANGED <<gsiVars, lockVars, fileVars, memberVars, mode, manifests, chunks, uploads,
                   repairs, clock, stored>>

\* the loop of api.search_local over the manifests for any query: match is
\* computed for every manifest as in _search_local_storage, and the test
\* "if match" stands after the loop, so that the one entry appended is that of
\* the manifest listed last; m_last is that manifest, NoManifest for an empty
\* directory
search_local_matches(p, items, m_last) ==
    IF m_last # NoManifest /\ is_match(m_last, items, 1)
    THEN {Entry(m_last, p)} ELSE {}

\* GET /search_local on p with the query items; os.listdir lists the
\* manifest files in any order, h is the hash listed last
SearchLocal(p, items) ==
    /\ alive[p]
    /\ \E h \in ManifestHashes :
        /\ list_local_manifests(Disks, p) # {} => manifests[p][h] # NoManifest
        /\ LET m_last == LastListed(Disks, p, h)
           IN last' = [op |-> "search_local", peer |-> p, query |-> items,
                       status |-> search_local_status(m_last),
                       results |-> IF search_local_status(m_last) = 200
                                   THEN search_local_matches(p, items, m_last)
                                   ELSE {}]
    /\ UNCHANGED <<gsiVars, lockVars, fileVars, memberVars, mode, manifests, chunks, uploads,
                   repairs, clock, stored>>

\* SemanticPeer._query_node for the query {"genre": v}, the result list as a
\* set: _search_local_storage on the peer itself, GET /search_local otherwise,
\* and nothing from a node that does not answer with status 200
_query_node(D, p, node, v, m_last) ==
    IF node = p
    THEN {Entry(m, p) : m \in {x \in list_local_manifests(D, p) : GenreMatches(x, v)}}
    ELSE IF ~alive[node] \/ search_local_status(m_last) # 200 THEN {}
    ELSE IF GenreMatches(m_last, v) THEN {Entry(m_last, node)} ELSE {}

\* GET /search?genre=v on p in the Semantic strategy: direct routing
SemanticSearch(p, v) ==
    /\ alive[p] /\ mode = "SEMANTIC"
    /\ \E lastOf \in [Peers -> ManifestHashes] :
        /\ \A q \in Peers : list_local_manifests(Disks, q) # {}
                               => manifests[q][lastOf[q]] # NoManifest
        /\ LET partition_key == Normalize[v]
               target_node == get_node(ring[p], Sha1(partition_key))
           IN last' = [op |-> "semantic_search", peer |-> p, genre |-> v,
                       contacted |-> {target_node},
                       results |-> _query_node(Disks, p, target_node, v,
                                               LastListed(Disks, target_node,
                                                          lastOf[target_node]))]
    /\ UNCHANGED <<gsiVars, lockVars, memberVars, mode, manifests, chunks, uploads, repairs, clock,
                   stored, fileVars>>

\* a read-repair thread runs _send_manifest(loser_host, winner_manifest)
DeliverRepair(r) ==
    /\ r \in repairs /\ alive[r.from]
    /\ SetDisks(store_manifest(Disks, r.target, r.manifest))
    /\ repairs' = repairs \ {r}
    /\ UNCHANGED <<gsiVars, lockVars, memberVars, mode, uploads, clock, stored, last, fileVars>>


-----------------------------------------------------------------------------
(* naive.py, semantic.py: anti-entropy *)

\* SemanticPeer._get_placement_key
SemanticPlacementKey(manifest) ==
    IF manifest.placement_key # NoKey THEN manifest.placement_key ELSE manifest.filename

\* a placement key that ignores the strategy
FilenameKey(manifest) == manifest.filename

\* NaivePeer._get_placement_key, overridden by SemanticPeer
_get_placement_key(manifest) ==
    IF mode = "SEMANTIC" THEN SemanticPlacementKey(manifest) ELSE manifest.filename

\* the hash NaivePeer._repair_manifests hands to _ensure_replica_has_file
RepairCheckHash(manifest) == Sha1(manifest.filename)

\* the replicas NaivePeer._repair_manifests checks for one local manifest of p
RepairTargets(p, manifest) ==
    LET placement_hash == Sha1(_get_placement_key(manifest))
    IN IF get_node(ring[p], placement_hash) # p THEN {}
       ELSE Range(get_successors(ring[p], placement_hash, RepairCount)) \ {p}

\* the check_existence requests of one cycle of p
RepairChecks(p) ==
    {[target |-> t, hash |-> RepairCheckHash(m), filename |-> m.filename] :
        <<m, t>> \in {x \in list_local_manifests(Disks, p) \X Peers :
                        x[2] \in RepairTargets(p, x[1])}}

\* a repair that sends the manifest to every replica that answered
RepairSendsAll(p) == {c \in RepairChecks(p) : alive[c.target]}

\* NaivePeer._ensure_replica_has_file: the manifest is sent when the replica
\* answered and reported the hash missing
RepairSends(p) ==
    {c \in RepairChecks(p) : alive[c.target] /\ check_existence(Disks, c.target, c.hash)}

\* NaivePeer.anti_entropy_loop: one cycle of _repair_manifests on p
AntiEntropy(p) ==
    /\ alive[p] /\ list_local_manifests(Disks, p) # {}
    /\ LET checks == RepairChecks(p)
           sent == RepairSends(p)
       IN /\ manifests' = [q \in Peers |-> [h \in ManifestHashes |->
                IF \E c \in sent : c.target = q /\ c.hash = h
                THEN manifests[p][h]
                ELSE manifests[q][h]]]
          /\ last' = [op |-> "anti_entropy", peer |-> p, checks |-> checks, sent |-> sent,
                      had |-> [h \in ManifestHashes |->
                                  {q \in Peers : manifests[q][h] # NoManifest}]]
    /\ UNCHANGED <<gsiVars, lockVars, memberVars, mode, chunks, uploads, repairs, clock, stored, fileVars>>

-----------------------------------------------------------------------------
(* processes: stop, start, graceful leave *)

\* the process of p stops (docker stop): its threads end, its disk stays
Kill(p) ==
    /\ alive[p] /\ kills < MaxKills
    /\ alive' = [alive EXCEPT ![p] = FALSE]
    /\ kills' = kills + 1
    /\ fd' = [fd EXCEPT ![p] = None]
    /\ rejoin' = [rejoin EXCEPT ![p] = "done"]
    /\ uploads' = [uploads EXCEPT ![p] = NoUpload]
    /\ repairs' = {r \in repairs : r.from # p}
    /\ index_adds' = {t \in index_adds : t.node # p}
    /\ lock' = [lock EXCEPT ![p] = None]
    /\ pc' = [pc EXCEPT ![p] = [t \in Threads |-> Idle]]
    /\ victim' = [peer |-> p,
                  holders |-> [h \in ManifestHashes |-> {q \in Peers : manifests[q][h] # NoManifest}]]
    /\ UNCHANGED <<index, indexed, left, known_peers, ring, last_seen, restarts, mode,
                   manifests, chunks,
                   clock, stored, last, fileVars>>

\* main.py: the process of p starts again on the same data directory, with the
\* KNOWN_PEERS of its compose service (docker start) or of a container that
\* peer_gui.py creates anew
Start(p) ==
    /\ ~alive[p]
    /\ alive' = [alive EXCEPT ![p] = TRUE]
    /\ restarts' = restarts + 1
    /\ \E KNOWN_PEERS \in {bootstrap_peers[p], gui_known_peers} :
            SetMembership(NewPeer(Membership, p, KNOWN_PEERS))
    /\ rejoin' = [rejoin EXCEPT ![p] = "trying"]
    /\ left' = left \ {p}
    /\ UNCHANGED <<gsiVars, lockVars, fd, kills, victim, dataVars, fileVars>>

\* a process that had stopped starts again
Restart(p) == restarts < MaxRestarts /\ Start(p)

\* transfers that count every local manifest as moved
LeaveTransfersCountAll(D, p, temp_ring) ==
    [disks |-> D, moved_count |-> Cardinality({D.manifests[p][h] : h \in ManifestHashes}
                                                \ {NoManifest})]

\* transfers that remove every local manifest, sent or not
LeaveTransfersRemoveAll(D, p, temp_ring) ==
    LET moved == {m \in list_local_manifests(D, p) :
                    alive[get_node(temp_ring, Sha1(m.filename))]}
    IN [disks |-> [D EXCEPT !.manifests = [q \in Peers |-> [h \in ManifestHashes |->
                    IF q = p THEN NoManifest
                    ELSE IF D.manifests[p][h] \in moved
                            /\ get_node(temp_ring, Sha1(D.manifests[p][h].filename)) = q
                    THEN D.manifests[p][h]
                    ELSE D.manifests[q][h]]]],
        moved_count |-> Cardinality(moved)]

\* the transfers of BasePeer.graceful_shutdown: [disks, moved_count]
LeaveTransfers(D, p, temp_ring) ==
    LET moved == {m \in list_local_manifests(D, p) :
                    alive[get_node(temp_ring, Sha1(m.filename))]}
    IN [disks |-> [D EXCEPT !.manifests = [q \in Peers |-> [h \in ManifestHashes |->
                    IF q = p
                    THEN (IF D.manifests[p][h] \in moved THEN NoManifest ELSE D.manifests[p][h])
                    ELSE IF D.manifests[p][h] \in moved
                            /\ get_node(temp_ring, Sha1(D.manifests[p][h].filename)) = q
                    THEN D.manifests[p][h]
                    ELSE D.manifests[q][h]]]],
        moved_count |-> Cardinality(moved)]

\* the list known_peers without self, in order
RECURSIVE Without(_, _)
Without(s, x) ==
    IF s = <<>> THEN <<>>
    ELSE (IF Head(s) = x THEN <<>> ELSE <<Head(s)>>) \o Without(Tail(s), x)

\* BasePeer.graceful_shutdown on p: [M, D, status, manifests_moved]
graceful_shutdown(M, D, p) ==
    LET temp_peers == Without(M.known_peers[p], p)
    IN IF temp_peers = <<>>
       THEN [M |-> M, D |-> D, status |-> "isolated", manifests_moved |-> 0]
       ELSE LET t == LeaveTransfers(D, p, NewRing(temp_peers))
            IN [M |-> AnnounceLeaveLoop(M, p, temp_peers, 1), D |-> t.disks,
                status |-> "completed", manifests_moved |-> t.moved_count]

\* a leave handler that shuts down whatever peer_id the request names
leaveUnchecked(M, D, p, req_peer_id) ==
    LET r == graceful_shutdown(M, D, p)
    IN [r EXCEPT !.M = _remove_peer(r.M, p, p)]

\* api.leave on p: 403 for the id of another peer, else graceful_shutdown and
\* _remove_peer(self_id)
leave(M, D, p, req_peer_id) ==
    IF req_peer_id # p
    THEN [M |-> M, D |-> D, status |-> "unauthorized", manifests_moved |-> 0]
    ELSE LET r == graceful_shutdown(M, D, p)
         IN [r EXCEPT !.M = _remove_peer(r.M, p, p)]

\* POST /leave {peer_id: req_peer_id} on p
LeaveRequest(p, req_peer_id) ==
    /\ alive[p] /\ p \notin left
    /\ LET r == leave(Membership, Disks, p, req_peer_id)
       IN /\ SetMembership(r.M)
          /\ SetDisks(r.D)
          /\ last' = [op |-> "leave", peer |-> p, status |-> r.status,
                      manifests_moved |-> r.manifests_moved]
    /\ left' = IF req_peer_id = p THEN left \cup {p} ELSE left
    /\ UNCHANGED <<gsiVars, lockVars, alive, rejoin, fd, kills, restarts, victim, mode, uploads, repairs,
                   clock, stored, fileVars>>

\* POST /leave on p with its own id
Leave(p) == LeaveRequest(p, p)

-----------------------------------------------------------------------------
(* Specifications *)

InitMembership ==
    /\ alive = [p \in Peers |-> TRUE]
    /\ left = {}
    /\ known_peers = [p \in Peers |-> bootstrap_peers[p]]
    /\ ring = [p \in Peers |-> NewRing(bootstrap_peers[p] \o <<p>>)]
    /\ last_seen = [p \in Peers |-> Range(bootstrap_peers[p])]
    /\ fd = [p \in Peers |-> None]
    /\ kills = 0
    /\ restarts = 0
    /\ victim = [peer |-> None, holders |-> [h \in ManifestHashes |-> {}]]
    /\ lock = [p \in Peers |-> None]
    /\ pc = [p \in Peers |-> [t \in Threads |-> Idle]]

\* no index file on any disk, no index write under way
InitIndex ==
    /\ index = [p \in Peers |-> [k \in AllShardedKeys |-> <<>>]]
    /\ index_adds = {}
    /\ indexed = {}

InitData ==
    /\ manifests = [p \in Peers |-> [h \in ManifestHashes |-> NoManifest]]
    /\ chunks = [p \in Peers |-> [h \in ChunkHashes |-> NoData]]
    /\ uploads = [p \in Peers |-> NoUpload]
    /\ repairs = {}
    /\ clock = 0
    /\ stored = {}
    /\ last = [op |-> "start"]
    /\ InitIndex
    /\ mfile = [p \in Peers |-> [h \in ManifestHashes |-> NoFile]]
    /\ handles = [w \in Writers |-> NoHandle]

\* the cluster is up and joined, in one of the two strategies
Init ==
    /\ InitMembership
    /\ rejoin = [p \in Peers |-> "done"]
    /\ mode \in {"NAIVE", "SEMANTIC"}
    /\ InitData

\* uploads, anti-entropy cycles and a process that stops
Next ==
    \/ \E p \in Uploaders, f \in Filenames, g \in Genres :
            clock < MaxUploads /\ UploadStart(p, f, g)
    \/ \E p \in Peers : UploadSend(p)
    \/ \E p \in Peers : AntiEntropy(p)
    \/ \E p \in Peers : Kill(p)

Spec == Init /\ [][Next]_vars

\* uploads, downloads and a process that stops
FetchNext ==
    \/ \E p \in Uploaders, f \in Filenames, g \in Genres :
            clock < MaxUploads /\ UploadStart(p, f, g)
    \/ \E p \in Peers : UploadSend(p)
    \/ \E p \in Peers, f \in Filenames : Fetch(p, f)
    \/ \E p \in Peers : Kill(p)

FetchSpec == Init /\ [][FetchNext]_vars

\* uploads of files that exist and of one that does not, in each strategy
MaxMissingUploads == 1

MissingInit ==
    /\ InitMembership
    /\ rejoin = [p \in Peers |-> "done"]
    /\ mode \in {"NAIVE", "SEMANTIC", "METADATA"}
    /\ InitData

MissingNext ==
    \/ \E p \in Uploaders, f \in Filenames, g \in Genres :
            clock < MaxMissingUploads /\ UploadStart(p, f, g)
    \/ \E p \in Peers : UploadSend(p)
    \/ \E t \in index_adds : IndexStore(t)
    \/ \E p \in Uploaders, g \in Genres : StoreMissingFile(p, MissingFile, g)

MissingSpec == MissingInit /\ [][MissingNext]_vars

\* one ConsistentHashRing object, the ring of p1, under any calls of its methods
\* add_node and remove_node calls in one behaviour of the ring specification
MaxRingCalls == 4
\* the largest count handed to get_successors in the ring specification
MaxCount == 4

\* the item keys looked up in the ring specification
RingKeys == {Sha1(x) : x \in {"f1", "f2", "d1", "d3", "unknown"}}

NoRing == [absent |-> TRUE]

\* ring.add_node(node) on the ring of p1: a step of the loop of the
\* constructor over its node list, or the call of _merge_peers
RingAdd(node) ==
    /\ clock < MaxRingCalls
    /\ ring' = [ring EXCEPT !["p1"] = add_node(ring["p1"], node)]
    /\ clock' = clock + 1
    /\ last' = [op |-> "add_node", node |-> node, before |-> ring["p1"],
                absent |-> node \notin RingNodes(ring["p1"])]
    /\ UNCHANGED <<gsiVars, lockVars, fileVars, alive, left, known_peers, last_seen,
                   rejoin, fd, kills, restarts, victim, mode, manifests, chunks,
                   uploads, repairs, stored>>

\* ring.remove_node(node) on the ring of p1; undoes is the ring as it was
\* before the add_node call that came right before, when that call added
\* this node and the node was absent
RingRemove(node) ==
    /\ clock < MaxRingCalls
    /\ ring' = [ring EXCEPT !["p1"] = remove_node(ring["p1"], node)]
    /\ clock' = clock + 1
    /\ last' = [op |-> "remove_node", node |-> node, before |-> ring["p1"],
                undoes |-> IF last.op = "add_node" /\ last.node = node /\ last.absent
                           THEN last.before ELSE NoRing]
    /\ UNCHANGED <<gsiVars, lockVars, fileVars, alive, left, known_peers, last_seen,
                   rejoin, fd, kills, restarts, victim, mode, manifests, chunks,
                   uploads, repairs, stored>>

\* ring.get_node(item_key) and ring.get_successors(item_key, count), the
\* second called twice, on the ring of p1
RingLookup(item_key, count) ==
    /\ last' = [op |-> "lookup", key |-> item_key, count |-> count,
                node |-> get_node(ring["p1"], item_key),
                successors |-> get_successors(ring["p1"], item_key, count),
                again |-> get_successors(ring["p1"], item_key, count)]
    /\ UNCHANGED <<gsiVars, lockVars, fileVars, memberVars, mode, manifests, chunks,
                   uploads, repairs, clock, stored>>

RingInit ==
    /\ InitMembership
    /\ rejoin = [p \in Peers |-> "done"]
    /\ mode = "NAIVE"
    /\ InitData

RingNext ==
    \/ \E node \in Peers : RingAdd(node)
    \/ \E node \in Peers : RingRemove(node)
    \/ \E item_key \in RingKeys, count \in 1..MaxCount : RingLookup(item_key, count)

RingSpec == RingInit /\ [][RingNext]_vars

\* the local matcher on every directory of manifests and every query
MaxQueryPairs == 2

\* the metadata of the manifests a directory may hold: a genre in either
\* case or empty, an actor and no genre, or no metadata at all
LocalMetadata ==
    {[genre |-> "Action"], [genre |-> "action"], [genre |-> ""],
     [actor |-> "Pitt"], [genre |-> "Action", actor |-> "Pitt"]}

\* the manifest files a directory may hold for filename
LocalManifests(filename) ==
    {NoManifest} \cup
    {[filename |-> filename, chunks |-> <<>>, metadata |-> md, updated_at |-> NoTs,
      placement_key |-> NoKey] : md \in LocalMetadata}

\* the pairs of a query and the queries of at most MaxQueryPairs pairs, each
\* key once
QueryPairs ==
    ({"filename"} \X {"f1", "F2"}) \cup ({"genre"} \X {"action", "ACTION ", ""})
    \cup ({"actor"} \X {"Pitt", ""})
Queries ==
    {items \in UNION {[1..n -> QueryPairs] : n \in 0..MaxQueryPairs} :
        \A i, j \in 1..Len(items) : i # j => items[i][1] # items[j][1]}

MatchInit ==
    /\ InitMembership
    /\ rejoin = [p \in Peers |-> "done"]
    /\ mode = "NAIVE"
    /\ chunks = [p \in Peers |-> [h \in ChunkHashes |-> NoData]]
    /\ uploads = [p \in Peers |-> NoUpload]
    /\ repairs = {}
    /\ clock = 0
    /\ stored = {}
    /\ last = [op |-> "start"]
    /\ InitIndex
    /\ mfile = [p \in Peers |-> [h \in ManifestHashes |-> NoFile]]
    /\ handles = [w \in Writers |-> NoHandle]
    /\ \E m1 \in LocalManifests("f1"), m2 \in LocalManifests("f2") :
          manifests = [p \in Peers |->
                          IF p = "p1" THEN (Sha1("f1") :> m1) @@ (Sha1("f2") :> m2)
                          ELSE [h \in ManifestHashes |-> NoManifest]]

MatchNext ==
    \E items \in Queries :
        \/ LocalSearch("p1", items)
        \/ SearchLocal("p1", items)

MatchSpec == MatchInit /\ [][MatchNext]_vars

\* uploads and downloads in the Naive strategy, with chunk files going bad
CorruptInit ==
    /\ InitMembership
    /\ rejoin = [p \in Peers |-> "done"]
    /\ mode = "NAIVE"
    /\ InitData

\* the uploads of a behaviour of CorruptSpec
MaxCorruptUploads == 1

CorruptNext ==
    \/ \E p \in Uploaders, f \in Filenames, g \in Genres :
            clock < MaxCorruptUploads /\ UploadStart(p, f, g)
    \/ \E p \in Peers : UploadSend(p)
    \/ \E p \in Peers, f \in Filenames : Fetch(p, f)
    \/ \E q \in Peers, h \in ChunkHashes, d \in ChunkData : Corrupt(q, h, d)

CorruptSpec == CorruptInit /\ [][CorruptNext]_vars

\* downloads in the Naive strategy with damaged chunk files and stopped peers
DownloadNext ==
    \/ \E p \in Uploaders, f \in Filenames, g \in Genres :
            clock < MaxCorruptUploads /\ UploadStart(p, f, g)
    \/ \E p \in Peers : UploadSend(p)
    \/ \E p \in Peers, f \in Filenames : Fetch(p, f)
    \/ \E q \in Peers, h \in ChunkHashes, d \in ChunkData : Corrupt(q, h, d)
    \/ \E p \in Peers : Kill(p)

DownloadSpec == CorruptInit /\ [][DownloadNext]_vars

\* the Naive strategy: uploads, searches and their read-repairs; a search
\* starts once the repair threads of the searches before it have finished
SearchInit ==
    /\ InitMembership
    /\ rejoin = [p \in Peers |-> "done"]
    /\ mode = "NAIVE"
    /\ InitData

SearchNext ==
    \/ \E p \in Uploaders, f \in Filenames :
            clock < MaxSearchUploads /\ UploadStart(p, f, "")
    \/ \E p \in Peers : UploadSend(p)
    \/ \E p \in Peers, v \in QueryValues : repairs = {} /\ Search(p, v)
    \/ \E r \in repairs : DeliverRepair(r)

SearchSpec == SearchInit /\ [][SearchNext]_vars

\* the Semantic strategy: one upload, a process that stops, the failure
\* detector and the anti-entropy loop
HealInit ==
    /\ InitMembership
    /\ rejoin = [p \in Peers |-> "done"]
    /\ mode = "SEMANTIC"
    /\ InitData

HealNext ==
    \/ \E p \in Uploaders, f \in Filenames, g \in Genres :
            clock < MaxHealUploads /\ UploadStart(p, f, g)
    \/ \E p \in Peers : UploadSend(p)
    \/ \E p \in Peers : AntiEntropy(p)
    \/ \E p \in Peers : Kill(p)
    \/ \E p, q \in Peers : Tick(p, q)
    \/ \E p, q \in Peers : FDPing(p, q)
    \/ \E p \in Peers : FDCheck(p)

HealSpec == HealInit /\ [][HealNext]_vars

\* the processes have just started: membership only
MemberInit ==
    /\ InitMembership
    /\ rejoin = [p \in Peers |-> "trying"]
    /\ mode = "NAIVE"
    /\ InitData

MemberNext ==
    \/ \E p \in Peers : attempt_rejoin(p)
    \/ \E p, q \in Peers : Tick(p, q)
    \/ \E p, q \in Peers : FDPing(p, q)
    \/ \E p \in Peers : FDCheck(p)
    \/ \E p, q \in Peers : GossipSend(p, q)
    \/ \E p \in Peers : Kill(p)
    \/ \E p \in Peers : Restart(p)
    \/ \E p \in Peers : Leave(p)

MemberSpec == MemberInit /\ [][MemberNext]_vars

\* p1 starts before the peers of its KNOWN_PEERS do: its attempt_rejoin thread
\* retries while its failure detector runs, and the others start later
JoinInit ==
    /\ alive = [p \in Peers |-> p = "p1"]
    /\ left = {}
    /\ known_peers = [p \in Peers |-> bootstrap_peers[p]]
    /\ ring = [p \in Peers |-> NewRing(bootstrap_peers[p] \o <<p>>)]
    /\ last_seen = [p \in Peers |-> Range(bootstrap_peers[p])]
    /\ fd = [p \in Peers |-> None]
    /\ kills = 0
    /\ restarts = 0
    /\ victim = [peer |-> None, holders |-> [h \in ManifestHashes |-> {}]]
    /\ lock = [p \in Peers |-> None]
    /\ pc = [p \in Peers |-> [t \in Threads |-> Idle]]
    /\ rejoin = [p \in Peers |-> IF p = "p1" THEN "trying" ELSE "done"]
    /\ mode = "NAIVE"
    /\ InitData

\* processes started in one behaviour of the start-up specification
MaxStarts == 2

JoinNext ==
    \/ \E p \in Peers : attempt_rejoin(p)
    \/ \E p, q \in Peers : Tick(p, q)
    \/ \E p, q \in Peers : FDPing(p, q)
    \/ \E p \in Peers : FDCheck(p)
    \/ \E p, q \in Peers : GossipSend(p, q)
    \/ \E p \in Peers : restarts < MaxStarts /\ Start(p)

JoinSpec == JoinInit /\ [][JoinNext]_vars

\* the threads of a peer step by step, with peers failing
LockInit ==
    /\ InitMembership
    /\ rejoin = [p \in Peers |-> "done"]
    /\ mode = "NAIVE"
    /\ InitData

\* the peers whose threads are followed step by step; the handlers of the
\* other peers answer in one step
Stepped == {"p1"}

LockNext ==
    \/ \E p \in Stepped : FdWake(p)
    \/ \E p \in Stepped : FdLock(p)
    \/ \E p \in Stepped : FdSnapshot(p)
    \/ \E p \in Stepped : FdLoop(p)
    \/ \E p \in Stepped : FdPingCall(p)
    \/ \E p \in Stepped : FdRefresh(p)
    \/ \E p \in Stepped : FdTimeout(p)
    \/ \E p \in Stepped : FdRemoveLock(p)
    \/ \E p \in Stepped : FdRemove(p)
    \/ \E p \in Stepped : GossipWake(p)
    \/ \E p \in Stepped : GossipLock(p)
    \/ \E p \in Stepped : GossipCopy(p)
    \/ \E p \in Stepped : GossipLoop(p)
    \/ \E p \in Stepped : GossipPost(p)
    \/ \E p \in Stepped : \E op \in HandlerOps : \E arg \in HandlerArgs(p, op) :
          HandlerStart(p, op, arg)
    \/ \E p \in Stepped : HandlerLock(p)
    \/ \E p \in Stepped : HandlerBody(p)
    \/ \E p \in Stepped : JoinLoop(p)
    \/ \E p \in Stepped : JoinAnnounce(p)
    \/ \E p, q \in Peers : Tick(p, q)
    \/ \E p \in Peers : Kill(p)

LockSpec == LockInit /\ [][LockNext]_vars

\* the gossip thread of p1 step by step, the gossip of the other peers, a
\* process that stops and a peer that leaves; a leave request is handled
\* while no thread holds the lock of a peer it reaches
GossipLeaveNext ==
    \/ \E p \in Stepped : GossipWake(p)
    \/ \E p \in Stepped : GossipLock(p)
    \/ \E p \in Stepped : GossipCopy(p)
    \/ \E p \in Stepped : GossipLoop(p)
    \/ \E p \in Stepped : GossipPost(p)
    \/ \E p \in Peers \ Stepped, q \in Peers : lock[q] = None /\ GossipSend(p, q)
    \/ \E p \in Peers : Kill(p)
    \/ \E p \in Peers :
            /\ Cardinality(left) < MaxLeaves
            /\ \A q \in Peers : lock[q] = None
            /\ Leave(p)

GossipLeaveSpec == LockInit /\ [][GossipLeaveNext]_vars

\* uploads in either strategy, a process that stops, and POST /leave with any
\* peer id, until a peer has left
LeaveNext ==
    \/ \E p \in Uploaders, f \in Filenames, g \in Genres :
            clock < MaxLeaveUploads /\ UploadStart(p, f, g)
    \/ \E p \in Peers : UploadSend(p)
    \/ \E p \in Peers : Kill(p)
    \/ \E p, req_peer_id \in Peers :
            Cardinality(left) < MaxLeaves /\ LeaveRequest(p, req_peer_id)

LeaveSpec == Init /\ [][LeaveNext]_vars

\* the Naive strategy: an upload, a process that stops and searches (one
\* version of a file gives read-repair nothing to do)
PartialNext ==
    \/ \E p \in Uploaders, f \in Filenames :
            clock < MaxPartialUploads /\ UploadStart(p, f, "")
    \/ \E p \in Peers : UploadSend(p)
    \/ \E p \in Peers : Kill(p)
    \/ \E p \in Peers, v \in QueryValues : Search(p, v)

PartialSpec == SearchInit /\ [][PartialNext]_vars

-----------------------------------------------------------------------------
(* naive.py: _resolve_conflicts on its own, over bounded lists of raw results *)

\* longest list of raw results
MaxRaw == 3
\* latest timestamp of a raw result
MaxStamp == 2

\* updated_at of the manifests behind the raw results; NoTs is a manifest
\* without the key
Stamps == {NoTs} \cup (1..MaxStamp)

\* a manifest as search finds it in a store
ResultManifest(f, t) ==
    [filename |-> f, chunks |-> <<>>, metadata |-> [genre |-> ""], updated_at |-> t,
     placement_key |-> NoKey]

RawEntries == {Entry(ResultManifest(f, t), q) : f \in Filenames, t \in Stamps, q \in Peers}

\* the lists NaivePeer.search hands over: seen_keys keeps one entry per
\* filename and host
RawLists ==
    {raw \in UNION {[1..n -> RawEntries] : n \in 0..MaxRaw} :
        \A i, j \in DOMAIN raw :
            i < j => ~(raw[i].filename = raw[j].filename /\ raw[i].host = raw[j].host)}

ResolveInit ==
    /\ InitMembership
    /\ rejoin = [p \in Peers |-> "done"]
    /\ mode = "NAIVE"
    /\ manifests = [p \in Peers |-> [h \in ManifestHashes |-> NoManifest]]
    /\ chunks = [p \in Peers |-> [h \in ChunkHashes |-> NoData]]
    /\ uploads = [p \in Peers |-> NoUpload]
    /\ repairs = {}
    /\ clock = 0
    /\ stored = {}
    /\ last \in {[op |-> "raw", raw |-> raw] : raw \in RawLists}
    /\ InitIndex
    /\ mfile = [p \in Peers |-> [h \in ManifestHashes |-> NoFile]]
    /\ handles = [w \in Writers |-> NoHandle]

\* the call _resolve_conflicts(raw_results)
Resolve ==
    /\ last.op = "raw"
    /\ LET out == _resolve_conflicts(last.raw)
       IN last' = [op |-> "resolve", raw |-> last.raw, final_list |-> out.final_list,
                   repairs |-> out.repairs]
    /\ UNCHANGED <<gsiVars, lockVars, memberVars, mode, manifests, chunks, uploads, repairs, clock, stored, fileVars>>

ResolveSpec == ResolveInit /\ [][Resolve]_vars

\* the manifests saved in the behaviours that follow the file: two versions
\* of f1 and one of f2
SavedManifests ==
    {[filename |-> f, chunks |-> <<>>, metadata |-> [genre |-> "Action"],
      updated_at |-> t, placement_key |-> NoKey] :
        f \in Filenames, t \in 1..MaxStamp} \
    {[filename |-> "f2", chunks |-> <<>>, metadata |-> [genre |-> "Action"],
      updated_at |-> MaxStamp, placement_key |-> NoKey]}

\* save_manifest calls and readers on the manifest files of one peer
FileInit ==
    /\ InitMembership
    /\ rejoin = [p \in Peers |-> "done"]
    /\ mode = "NAIVE"
    /\ InitData

FileNext ==
    \/ \E w \in Writers, m \in SavedManifests : SaveManifestOpen(w, "p1", m)
    \/ \E w \in Writers : SaveManifestWrite(w)
    \/ \E w \in Writers : SaveManifestClose(w)
    \/ \E f \in Filenames : LoadManifest("p1", f)
    \/ ListManifests("p1")

FileSpec == FileInit /\ [][FileNext]_vars

\* the Metadata strategy, index level: POST /index/add as _gsi_write sends it,
\* one request at a time, a process that stops, and then one search
IndexEntries ==
    {[filename |-> f, metadata |-> [genre |-> "Action"], host |-> "p1"] : f \in Filenames}

\* as_completed hands over the answers in the order of submission
SubmissionOrder == [i \in 1..INDEX_SHARDS |-> i - 1]

\* the query dicts of the searches, as lists of items
GenreItem == [key |-> "genre", val |-> "ACTION "]
ActorItem == [key |-> "actor", val |-> "Pitt"]
IndexQueries ==
    {<<>>, <<GenreItem>>, <<ActorItem>>, <<GenreItem, ActorItem>>, <<ActorItem, GenreItem>>}

\* the entries in the index files and in the calls that are about to write
IndexSize ==
    Cardinality({x \in Peers \X AllShardedKeys \X (1..MaxIndexEntries) :
                    x[3] <= Len(index[x[1]][x[2]])})
    + Cardinality(index_adds)

IndexInit ==
    /\ InitMembership
    /\ rejoin = [p \in Peers |-> "done"]
    /\ mode = "METADATA"
    /\ InitData

IndexNext ==
    \/ \E q \in Peers, k \in AllShardedKeys, e \in IndexEntries :
            /\ last.op # "metadata_search" /\ index_adds = {}
            /\ IndexSize < MaxIndexEntries
            /\ index_add(ShardNode(q, k), k, e)
    \/ \E t \in index_adds : last.op # "metadata_search" /\ IndexStore(t)
    \/ \E p \in Peers : last.op # "metadata_search" /\ Kill(p)
    \/ \E p \in Peers, query \in IndexQueries :
            last.op # "metadata_search" /\ MetaSearch(p, query, SubmissionOrder)

IndexSpec == IndexInit /\ [][IndexNext]_vars

\* the Metadata strategy: uploads with their index writes, and searches
GsiNext ==
    \/ \E p \in Uploaders, f \in Filenames, g \in Genres :
            clock < MaxGsiUploads /\ UploadStart(p, f, g)
    \/ \E p \in Peers : UploadSend(p)
    \/ \E t \in index_adds : IndexStore(t)
    \/ \E p \in Peers, order \in ShardOrders : MetaSearch(p, <<GenreItem>>, order)

GsiSpec == IndexInit /\ [][GsiNext]_vars

\* the Semantic strategy: uploads, searches by genre and a process that stops
RouteInit ==
    /\ InitMembership
    /\ rejoin = [p \in Peers |-> "done"]
    /\ mode = "SEMANTIC"
    /\ InitData

RouteNext ==
    \/ \E p \in Uploaders, f \in Filenames, g \in Genres :
            clock < MaxRouteUploads /\ UploadStart(p, f, g)
    \/ \E p \in Peers : UploadSend(p)
    \/ \E p \in Peers, v \in GenreQueryValues : SemanticSearch(p, v)
    \/ \E p \in Peers : Kill(p)

RouteSpec == RouteInit /\ [][RouteNext]_vars

-----------------------------------------------------------------------------
(* Properties *)

\* a peer that runs and has not left the network
Live(p) == alive[p] /\ p \notin left

\* C1 (MemberSpec): in every reachable state the physical nodes of a peer's
\* ring are exactly its known_peers plus the peer itself.
RingMatchesView ==
    \A p \in Peers : RingNodes(ring[p]) = Range(known_peers[p]) \cup {p}

\* C2 (FetchSpec): a fetch on a live peer of a file whose upload returned
\* "stored", with a live copy of each of its chunks, returns status fetched and
\* the bytes of the original.
FetchRebuildsUploadedFile ==
    (last.op = "fetch" /\ last.filename \in stored /\ last.live_copies)
        => (last.status = "fetched" /\ last.content = split_file[last.filename])

\* C3 (Spec): on every peer, for every filename, no step replaces the stored
\* manifest by one with a smaller updated_at.
UpdatedAtNeverDecreases ==
    [][\A p \in Peers, h \in ManifestHashes :
          (manifests[p][h] # NoManifest /\ manifests'[p][h] # NoManifest)
              => UpdatedAt(manifests'[p][h]) >= UpdatedAt(manifests[p][h])]_vars

\* C4 (SearchSpec): once the repair threads of a search have finished, with no
\* upload under way, every peer the search contacted that held the file with a
\* smaller updated_at than another contacted peer holds a version at least
\* that recent.
ReadRepairConverges ==
    (last.op = "search" /\ repairs = {} /\ \A p \in Peers : uploads[p] = NoUpload) =>
        \A q1, q2 \in last.contacted :
            (/\ last.held[q1] # NoManifest /\ last.held[q2] # NoManifest
             /\ UpdatedAt(last.held[q1]) < UpdatedAt(last.held[q2]))
                => UpdatedAt(manifests[q1][Sha1(Normalize[last.query])])
                        >= UpdatedAt(last.held[q2])

\* the highest updated_at among the raw results of filename f
TopStamp(raw, f) ==
    CHOOSE t \in {raw[i].updated_at : i \in {j \in DOMAIN raw : raw[j].filename = f}} :
        \A i \in DOMAIN raw : raw[i].filename = f => raw[i].updated_at <= t

\* C5 (ResolveSpec): _resolve_conflicts returns one entry per filename, an
\* entry of the list with the highest updated_at of that filename, and starts
\* one repair with the winner's manifest for each host whose entry of that
\* filename is strictly older, and no other repair.
ResolveConflictsCorrect ==
    last.op = "resolve" =>
        LET raw == last.raw
            out == last.final_list
            rep == last.repairs
            names == {raw[i].filename : i \in DOMAIN raw}
        IN /\ \A f \in names : Cardinality({i \in DOMAIN out : out[i].filename = f}) = 1
           /\ \A i \in DOMAIN out :
                /\ out[i] \in Range(raw)
                /\ out[i].updated_at = TopStamp(raw, out[i].filename)
           /\ \A f \in Filenames, q \in Peers :
                Cardinality({i \in DOMAIN rep :
                                rep[i].target = q /\ rep[i].manifest.filename = f})
                    = IF \E j \in DOMAIN raw : /\ raw[j].filename = f /\ raw[j].host = q
                                               /\ raw[j].updated_at < TopStamp(raw, f)
                      THEN 1 ELSE 0
           /\ \A i \in DOMAIN rep : \E k \in DOMAIN out : out[k].manifest = rep[i].manifest

\* two filenames, one of them in two versions: a repair starts
ResolveConflictsWitness ==
    /\ last.op = "resolve"
    /\ Len(last.final_list) = 2
    /\ Len(last.raw) = 3
    /\ Len(last.repairs) = 1

\* the K ring targets of the placement key of manifest m, as peer p sees them
ReplicaSet(p, m) == get_successors(ring[p], Sha1(_get_placement_key(m)), K)

\* C6 (Spec): after an anti-entropy cycle of a peer that is primary for a
\* manifest whose two replicas, both running, lacked it, the primary and both
\* replicas hold the manifest.
AntiEntropyRestoresReplicas ==
    last.op = "anti_entropy" =>
        \A m \in list_local_manifests(Disks, last.peer) :
            LET set == ReplicaSet(last.peer, m)
                h == Sha1(m.filename)
            IN (/\ Len(set) = K /\ set[1] = last.peer
                /\ last.had[h] \cap Range(set) = {last.peer}
                /\ \A q \in Range(set) : alive[q])
                    => \A q \in Range(set) : manifests[q][h] # NoManifest

\* the placement key the spec gives a manifest
PlacementKeyOf(m) ==
    IF mode = "SEMANTIC" /\ m.placement_key # NoKey THEN m.placement_key ELSE m.filename

\* C7 (Spec): in an anti-entropy cycle every check carries SHA-1(filename);
\* the peer checks a manifest on other peers exactly when the ring gives it the
\* hash of the placement key; it sends only what it checked.
AntiEntropyUsesBothHashes ==
    last.op = "anti_entropy" =>
        /\ \A c \in last.checks : c.hash = Sha1(c.filename)
        /\ last.sent \subseteq last.checks
        /\ \A m \in list_local_manifests(Disks, last.peer) :
            LET primary == get_node(ring[last.peer], Sha1(PlacementKeyOf(m))) = last.peer
                targets == {c.target : c \in {x \in last.checks : x.filename = m.filename}}
            IN /\ ~primary => targets = {}
               /\ (primary /\ RingNodes(ring[last.peer]) # {last.peer}) => targets # {}

\* a Semantic peer that is primary for a genre, but not for the filename, has
\* checked and repaired a replica
AntiEntropyUsesBothHashesWitness ==
    /\ last.op = "anti_entropy" /\ mode = "SEMANTIC"
    /\ last.sent # {}
    /\ \E c \in last.checks :
        get_node(ring[last.peer], Sha1(c.filename)) # last.peer

\* the steps that copy a manifest
HealSteps ==
    \/ \E p \in Peers : UploadSend(p)
    \/ \E p \in Peers : AntiEntropy(p)

\* C8 (HealSpec): once the failure detector of every running peer has removed
\* a killed peer that held a manifest, the manifest is on a running peer or an
\* upload or anti-entropy step can still change a store.
ManifestSelfHeals ==
    \A h \in ManifestHashes :
        (/\ victim.peer # None
         /\ victim.peer \in victim.holders[h]
         /\ \A p \in Peers : alive[p] => victim.peer \notin RingNodes(ring[p]))
            => \/ \E q \in Peers : alive[q] /\ manifests[q][h] # NoManifest
               \/ ENABLED <<HealSteps>>_manifests

\* the steps of the membership threads, and time
MemberSteps ==
    \/ \E p \in Peers : attempt_rejoin(p)
    \/ \E p, q \in Peers : Tick(p, q)
    \/ \E p, q \in Peers : FDPing(p, q)
    \/ \E p \in Peers : FDCheck(p)
    \/ \E p, q \in Peers : GossipSend(p, q)

\* C9 (MemberSpec): every live peer is in the view of every other live peer,
\* or a join or a timeout check is still pending, or some join,
\* failure-detector or gossip step can still change a view.
MembershipConverges ==
    \/ \A p, q \in Peers : (Live(p) /\ Live(q) /\ p # q) => q \in Range(known_peers[p])
    \/ \E p \in Peers : alive[p] /\ (rejoin[p] = "trying" \/ fd[p] # None)
    \/ ENABLED <<MemberSteps>>_<<known_peers, ring, last_seen, rejoin, fd>>

\* C10 (MemberSpec): a peer that is down and absent from the view of a running
\* peer, one that has joined, stays absent from its view and its ring as long
\* as it is down.
DeadPeerStaysRemoved ==
    [][\A p, d \in Peers :
          (/\ alive[p] /\ alive'[p] /\ rejoin[p] = "done"
           /\ ~alive[d] /\ ~alive'[d] /\ d \notin left
           /\ d \notin Range(known_peers[p]))
              => (d \notin Range(known_peers'[p]) /\ d \notin RingNodes(ring'[p]))]_vars

\* the ring graceful_shutdown builds on p: known_peers without p
TempRing(p) == NewRing(Without(known_peers[p], p))

\* the step is the graceful leave of p, with a neighbour to hand over to
LeaveStep(p) ==
    /\ p \notin left /\ p \in left'
    /\ Without(known_peers[p], p) # <<>>

\* C11 (LeaveSpec): in a graceful leave of p in which the target of every
\* transfer is running, each manifest p held is afterwards on the node the ring
\* without p gives the manifest's placement key, and manifests_moved is the
\* number of manifests p held.
GracefulLeaveRehosts ==
    [][\A p \in Peers :
          (/\ LeaveStep(p)
           /\ \A m \in list_local_manifests(Disks, p) :
                 alive[get_node(TempRing(p), Sha1(m.filename))])
              => /\ \A m \in list_local_manifests(Disks, p) :
                      manifests'[get_node(TempRing(p), Sha1(_get_placement_key(m)))]
                                [Sha1(m.filename)] = m
                 /\ last'.manifests_moved = Cardinality(list_local_manifests(Disks, p))]_vars

ForeignLeaveRejected ==
    [][(\E p, req_peer_id \in Peers : req_peer_id # p /\ LeaveRequest(p, req_peer_id))
          => /\ last'.status = "unauthorized"
             /\ UNCHANGED <<manifests, chunks, known_peers, ring, last_seen, left>>]_vars

\* a peer that holds a manifest and neighbours has rejected a leave request
ForeignLeaveRejectedWitness ==
    /\ last.op = "leave" /\ last.status = "unauthorized"
    /\ known_peers[last.peer] # <<>>
    /\ \E h \in ManifestHashes : manifests[last.peer][h] # NoManifest

\* C14 (PartialSpec): a Naive search returns with partial_result true when a
\* known peer it contacted was down or answered with an error, and its results
\* name every file of its raw hits and the file it holds itself.
SearchReportsPartial ==
    last.op = "search" =>
        /\ last.errored # {} => last.partial_result
        /\ \A i \in DOMAIN last.raw :
              \E k \in DOMAIN last.results : last.results[k].filename = last.raw[i].filename
        /\ last.held[last.peer] # NoManifest =>
              \E k \in DOMAIN last.results :
                  last.results[k].filename = last.held[last.peer].filename

\* C15 (IndexSpec): a Metadata search answers partial_result = true when the
\* node of any shard of any attribute of the query did not answer, and every
\* filename that the answering shards held for each attribute of the query is
\* in the result.
MetadataSearchReportsPartial ==
    last.op = "metadata_search" =>
        /\ (\E i \in 1..Len(last.query) : last.down[i] # {}) => last.partial_result
        /\ \A f \in Filenames :
              (last.query # <<>> /\ \A i \in 1..Len(last.query) : f \in last.answered[i])
                  => \E e \in last.results : e.filename = f

MetadataSearchReportsPartialWitness ==
    /\ last.op = "metadata_search"
    /\ \E i \in 1..Len(last.query) : last.down[i] # {}
    /\ last.partial_result
    /\ last.results # {}

\* C16 (GsiSpec): with every peer running and holding the same ring, once the
\* uploads and their index writes have finished, a search on a value returns
\* as many results as there are files whose upload wrote that value, whatever
\* shard each upload picked.
GsiSearchReturnsAll ==
    (last.op = "metadata_search" /\ last.settled) => Cardinality(last.results) = last.n

\* the filenames of a result
ResultNames(results) == {e.filename : e \in results}

\* C17 (IndexSpec): the filenames a search on two attributes returns are the
\* filenames that the search on the first attribute alone and the search on
\* the second attribute alone both return.
MetadataSearchIntersects ==
    (last.op = "metadata_search" /\ Len(last.query) = 2) =>
        ResultNames(last.results) =
            ResultNames(MetadataSearch(last.peer, <<last.query[1]>>, SubmissionOrder).results)
            \cap ResultNames(MetadataSearch(last.peer, <<last.query[2]>>, SubmissionOrder).results)

MetadataSearchIntersectsWitness ==
    /\ last.op = "metadata_search" /\ Len(last.query) = 2
    /\ last.results # {}
    /\ ResultNames(last.results) #
            ResultNames(MetadataSearch(last.peer, <<last.query[1]>>, SubmissionOrder).results)
    /\ ~last.partial_result

\* the entries a request can carry
AnyIndexEntries ==
    {[filename |-> f, metadata |-> [genre |-> "Action"], host |-> h] :
        f \in Filenames, h \in Peers}

\* C18 (IndexSpec): no index file lists a filename twice, and a second
\* save_index_entry with a filename the file lists after the first call leaves
\* the file as the first call left it.
IndexEntryIdempotent ==
    \A p \in Peers, k \in AllShardedKeys :
        LET entries == index[p][k]
        IN /\ \A i, j \in 1..Len(entries) :
                  entries[i].filename = entries[j].filename => i = j
           /\ \A e1, e2 \in AnyIndexEntries :
                  e1.filename = e2.filename =>
                      LET once == save_index_entry(entries, e1)
                      IN /\ save_index_entry(once, e2) = once
                         /\ \A i, j \in 1..Len(once) :
                               once[i].filename = once[j].filename => i = j

IndexEntryIdempotentWitness ==
    /\ last.op = "index_add" /\ last.present
    /\ Len(index[last.node][last.key]) = 2
    /\ index_adds = {}

\* C19 (RouteSpec): a Semantic search whose query carries genre contacts one
\* node, the node its ring makes responsible for the normalized genre value,
\* and that node is where an upload with that genre on the same peer sends the
\* manifest.
SemanticSearchRoutesToUploadNode ==
    last.op = "semantic_search" =>
        /\ last.contacted = {get_node(ring[last.peer], Sha1(Normalize[last.genre]))}
        /\ \A f \in Filenames :
              Range(SemanticUpload(last.peer, f, last.genre).todo) = last.contacted

\* C20 (FetchSpec): on every peer every chunk file has the SHA-1 of its
\* content as its name, whether the upload saved it on the uploader, a peer
\* received it through store_chunk, or a fetch downloaded it.
ChunkNameIsSha1 ==
    \A p \in Peers, h \in ChunkHashes : chunks[p][h] # NoData => Sha1(chunks[p][h]) = h

\* a fetch in the Naive strategy has left its peer with a chunk that another
\* peer, the one the upload sent it to, holds too
ChunkNameIsSha1Witness ==
    /\ mode = "NAIVE"
    /\ last.op = "fetch" /\ last.status = "fetched"
    /\ \E h \in ChunkHashes, q \in Peers \ {last.peer} :
          chunks[last.peer][h] # NoData /\ chunks[q][h] # NoData
    /\ \E h \in ChunkHashes : chunks[last.peer][h] # NoData
                                /\ get_node(ring[last.peer], h) = last.peer

\* C21 (Spec): in every strategy an upload addresses its manifest to the K
\* ring targets of its placement key, the primary and the next distinct
\* successors, each of them once.
ManifestSentToAllTargets ==
    [][\A p \in Peers :
          (uploads[p] = NoUpload /\ uploads'[p] # NoUpload) =>
              /\ Range(uploads'[p].todo) =
                     Range(get_successors(ring[p],
                                          Sha1(PlacementKeyOf(uploads'[p].manifest)), K))
              /\ Len(uploads'[p].todo) = Cardinality(Range(uploads'[p].todo))]_vars

\* C22 (LockSpec): a step of a thread of peer p that changes known_peers, the
\* ring or last_seen of p is taken by the thread that holds the lock of p.
MembershipMutatedUnderLock ==
    [][\A p \in Peers : \A t \in Threads :
          (/\ ThreadStep(p, t)
           /\ \/ known_peers'[p] # known_peers[p]
              \/ ring'[p] # ring[p]
              \/ last_seen'[p] # last_seen[p]) => lock[p] = t]_vars

FetchSkipsCorruptCopies ==
    [][\A p \in Peers, f \in Filenames :
          (/\ Fetch(p, f)
           /\ FetchedManifest(p, f) # NoManifest
           /\ IntactListedCopies(FetchedManifest(p, f))) => last'.status = "fetched"]_vars

\* C25 (FileSpec): a load_manifest that runs while a save_manifest has the
\* file open does not fail on the text and returns what the file held before
\* that save or what the save writes.
SaveManifestIsAtomic ==
    (last.op = "load_manifest" /\ last.saving) =>
        ~last.raised /\ last.result \in last.old_or_new

FailureDetectorRemovesOnlyExpired ==
    [][\A p \in Peers :
          LET t == pc[p]["fd"]
          IN /\ (t.op # "remove" /\ pc'[p]["fd"].op = "remove") =>
                    /\ t.at = "check" /\ FdTimeout(p)
                    /\ Head(t.arg) \notin last_seen[p]
             /\ (FdRemove(p) /\ known_peers'[p] # known_peers[p]) =>
                    /\ t.op = "remove"
                    /\ Range(known_peers'[p]) = Range(known_peers[p]) \ {Head(t.arg)}
             /\ (FdPingCall(p) /\ alive[Head(t.arg)]) => pc'[p]["fd"].at = "refresh"
             /\ (FdPingCall(p) /\ ~alive[Head(t.arg)]) => pc'[p]["fd"].at = "check"
             /\ FdRefresh(p) =>
                    /\ Head(t.arg) \in last_seen'[p]
                    /\ pc'[p]["fd"].op # "remove"
                    /\ known_peers'[p] = known_peers[p] /\ ring'[p] = ring[p]]_vars

\* the failure detector of a peer holds the lock to remove a peer that is
\* down and whose last_seen entry has aged out
FailureDetectorRemovesOnlyExpiredWitness ==
    \E p \in Peers :
        /\ pc[p]["fd"].at = "remove"
        /\ ~alive[Head(pc[p]["fd"].arg)]
        /\ Head(pc[p]["fd"].arg) \notin last_seen[p]
        /\ Head(pc[p]["fd"].arg) \in Range(known_peers[p])

\* C28 (MemberSpec): when the gossip of p reaches a running peer q, the
\* known_peers of q become its previous known_peers followed by the peers of
\* the list it did not know, its own id left out: none is removed, none
\* appears twice, and each added peer is on the ring of q with a last_seen
\* entry of that moment.
UpdatePeersIsUnion ==
    [][\A p, q \in Peers :
          (GossipSend(p, q) /\ alive[q]) =>
              LET old == known_peers[q]
                  new == known_peers'[q]
                  added == (Range(known_peers[p]) \ {q}) \ Range(old)
              IN /\ Range(new) = Range(old) \cup (Range(known_peers[p]) \ {q})
                 /\ SubSeq(new, 1, Len(old)) = old
                 /\ q \in Range(new) => q \in Range(old)
                 /\ Len(new) = Len(old) + Cardinality(added)
                 /\ Len(new) = Cardinality(Range(new))
                 /\ RingNodes(ring'[q]) = RingNodes(ring[q]) \cup added
                 /\ last_seen'[q] = last_seen[q] \cup added]_vars

\* p1 is down, was never restarted and nobody left; p2, which has not made
\* its own join yet, had removed p1 and has it again, at the end of its list:
\* the gossip of p3 brought it back
UpdatePeersIsUnionWitness ==
    /\ ~alive["p1"] /\ restarts = 0 /\ left = {} /\ rejoin["p2"] = "trying"
    /\ known_peers["p2"] = <<"p3", "p1">>
    /\ "p1" \in RingNodes(ring["p2"])
    /\ "p1" \in last_seen["p2"]

\* C29 (MemberSpec): when the join of p is handled by b, b has p in its
\* known_peers and ring, every other running peer b knows has p in its
\* known_peers and ring, and the view of p holds every peer of the view b
\* replied with except p itself.
JoinSpreadsNewPeer ==
    [][\A p, b \in Peers :
          (attempt_rejoin(p) /\ FirstAnswering(p, b)) =>
              /\ p \in Range(known_peers'[b]) /\ p \in RingNodes(ring'[b])
              /\ \A q \in Range(known_peers'[b]) \ {p, b} :
                     alive[q] => p \in Range(known_peers'[q]) /\ p \in RingNodes(ring'[q])
              /\ Range(known_peers'[b]) \ {p} \subseteq Range(known_peers'[p])]_vars

\* p1 has come back and joined through p2; p2 and p3 had both removed it and
\* have it again, at the end of their lists
JoinSpreadsNewPeerWitness ==
    /\ alive["p1"] /\ restarts = 1 /\ rejoin["p1"] = "done"
    /\ known_peers["p2"] = <<"p3", "p1">>
    /\ known_peers["p3"] = <<"p2", "p1">>
    /\ "p1" \in RingNodes(ring["p3"])
    /\ Range(known_peers["p1"]) = {"p2", "p3"}

SearchLocalSameAsLocalStorage ==
    last.op = "search_local" =>
        /\ last.status = 200
        /\ last.results = local_matches(Disks, last.peer, last.query)

\* C32 (RingSpec): on a ring of N >= 1 physical nodes get_successors(key,
\* count) returns a list of min(count, N) pairwise distinct nodes of the ring,
\* the nodes met first on the way round the ring from the position of the key
\* and in the order they are met; its first element is get_node(key); a second
\* call returns the same list.
GetSuccessorsCorrect ==
    (last.op = "lookup" /\ RingNodes(ring["p1"]) # {}) =>
        LET r == ring["p1"]
            s == last.successors
            h == _hash(last.key)
            N == Cardinality(RingNodes(r))
        IN /\ s # Raised
           /\ Len(s) = IF last.count < N THEN last.count ELSE N
           /\ \A i \in 1..Len(s) : s[i] \in RingNodes(r)
           /\ \A i, j \in 1..Len(s) :
                  i < j => Clockwise(h, FirstPosition(r, h, s[i]), FirstPosition(r, h, s[j]))
           /\ \A n \in RingNodes(r) \ Range(s) : \A i \in 1..Len(s) :
                  Clockwise(h, FirstPosition(r, h, s[i]), FirstPosition(r, h, n))
           /\ s[1] = last.node
           /\ last.again = s

\* C40 (RingSpec): after any add_node and remove_node calls, a call that adds
\* a node already present among them, sorted_keys holds exactly the keys of the
\* ring mapping, each once and in ascending order, so that no lookup meets a
\* position that has no node.
SortedKeysMatchRing ==
    LET r == ring["p1"]
    IN /\ Range(r.sorted_keys) = DOMAIN r.ring
       /\ \A i, j \in 1..Len(r.sorted_keys) : i < j => r.sorted_keys[i] < r.sorted_keys[j]
       /\ last.op = "lookup" => last.node # KeyError /\ last.successors # Raised

\* C39 (RingSpec): removing a node n of the ring leaves get_node(k) as it was
\* for every key k whose responsible node was another node of the ring; and
\* removing a node right
\* after adding it, when it was absent before, gives a ring on which get_node
\* and get_successors return what they returned before the node was added.
RingIsStable ==
    last.op = "remove_node" =>
        /\ last.node \in RingNodes(last.before) =>
               \A k \in RingKeys :
                   get_node(last.before, k) \in RingNodes(last.before) \ {last.node}
                       => get_node(ring["p1"], k) = get_node(last.before, k)
        /\ last.undoes # NoRing =>
               \A k \in RingKeys :
                   /\ get_node(ring["p1"], k) = get_node(last.undoes, k)
                   /\ \A count \in 1..MaxCount :
                          get_successors(ring["p1"], k, count)
                              = get_successors(last.undoes, k, count)

\* p2 has been removed from the ring of three nodes, added again and removed
\* again; f2, whose node is p3 with and without p2, is one of the keys
RingIsStableWitness ==
    /\ last.op = "remove_node" /\ last.node = "p2" /\ last.undoes # NoRing
    /\ RingNodes(ring["p1"]) = {"p1", "p3"}
    /\ RingNodes(last.before) = {"p1", "p2", "p3"}
    /\ get_node(last.before, Sha1("unknown")) = "p2"
    /\ get_node(ring["p1"], Sha1("unknown")) # "p2"
    /\ get_node(ring["p1"], Sha1("f2")) = get_node(last.before, Sha1("f2"))

\* C33 (DownloadSpec): a download returns status fetched only with every
\* chunk of the manifest in the local store under its hash, the content
\* hashing to it, and the output the chunks in manifest order; when some chunk
\* is neither in the local store nor served by a peer of its list, it returns
\* status partial with exactly those hashes as missing; when the manifest is
\* not obtained it returns status failed and no chunk file changes.
DownloadStatusIsRight ==
    [][\A p \in Peers, f \in Filenames :
          Fetch(p, f) =>
              LET manifest == FetchedManifest(p, f)
                  hashes == IF manifest = NoManifest THEN {}
                            ELSE {manifest.chunks[k].hash : k \in 1..Len(manifest.chunks)}
                  listed(h) == UNION {Range(manifest.chunks[k].peers) :
                                        k \in {i \in 1..Len(manifest.chunks) :
                                                  manifest.chunks[i].hash = h}}
                  not_obtained == {h \in hashes :
                                     /\ chunks[p][h] = NoData
                                     /\ \A q \in listed(h) : ~alive[q] \/ chunks[q][h] = NoData}
              IN /\ last'.status = "fetched" =>
                     /\ manifest # NoManifest
                     /\ \A h \in hashes : chunks'[p][h] # NoData /\ Sha1(chunks'[p][h]) = h
                     /\ last'.content = [k \in 1..Len(manifest.chunks) |->
                                            chunks'[p][manifest.chunks[k].hash]]
                 /\ (manifest # NoManifest /\ not_obtained # {}) =>
                     /\ last'.status = "partial"
                     /\ Range(last'.missing) = not_obtained
                 /\ manifest = NoManifest =>
                     /\ last'.status = "failed"
                     /\ chunks' = chunks]_vars

\* a download of f1 after a peer has stopped: one of its two chunks is neither
\* on the downloader nor served by a peer of its list, the other one is on
\* the downloader's disk
DownloadStatusIsRightWitness ==
    /\ last.op = "fetch" /\ last.filename = "f1" /\ last.status = "partial"
    /\ kills = 1
    /\ Len(last.missing) = 1
    /\ \E h \in {Sha1("d1"), Sha1("d2")} \ Range(last.missing) :
          chunks[last.peer][h] # NoData

\* C34 (JoinSpec): when the join request of p is answered by bootstrap peer b,
\* b is in the known_peers and in the ring of p after the join, also when the
\* failure detector of p had removed b before.
JoinerKnowsBootstrap ==
    [][\A p, b \in Peers :
          (attempt_rejoin(p) /\ FirstAnswering(p, b)) =>
              b \in Range(known_peers'[p]) /\ b \in RingNodes(ring'[p])]_vars

ConcurrentIndexEntriesKept ==
    [][\A t \in index_adds :
          IndexStore(t) =>
              LET before == index[t.node][t.key]
                  after == index'[t.node][t.key]
              IN /\ \E j \in 1..Len(after) : after[j].filename = t.entry.filename
                 /\ \A i \in 1..Len(before) :
                        \E j \in 1..Len(after) : after[j].filename = before[i].filename]_vars

\* C37 (GossipLeaveSpec): once a peer has left gracefully and its running
\* neighbours have handled announce_leave, no gossip message brings it back
\* into the known_peers or the ring of a running peer that had removed it,
\* also when the sender copied its list before it handled the leave.
GossipKeepsLeaverOut ==
    [][\A p \in Stepped :
          GossipPost(p) =>
              \A d \in left : \A q \in Peers \ {d} :
                  (alive[q] /\ d \notin Range(known_peers[q]))
                      => /\ d \notin Range(known_peers'[q])
                         /\ d \notin RingNodes(ring'[q])]_vars

=============================================================================
